---- MODULE Spec2Model ----
(***************************************************************************)
(* Model of the ordering backend: catalog import (import_products and the  *)
(* PartnerProductInfoSerializer it drives), partner listing delete, basket *)
(* aggregation and checkout (BasketView.post, OrderViewSet.create).        *)
(*                                                                         *)
(* The relational store is modelled as sets of rows; every ORM statement   *)
(* is committed as it is issued (no statement of the modelled handlers is  *)
(* wrapped in a transaction), so a handler that raises leaves behind the   *)
(* rows it wrote before raising.                                           *)
(***************************************************************************)
EXTENDS Integers, Sequences, FiniteSets, TLC

VARIABLES
    catalog,    \* Shop, Category, ShopCategory, Product, ProductInfo, Parameter,
                \* ValueOfParameter, ProductParameter tables and the ProductParameter id sequence
    last,       \* the outcome of the last finished request or task
    task,       \* the import task under observation: its owner and its payload
    orders,     \* BuyerOrder, SellerOrder, SellerOrderItem, Contact tables
    now,        \* timezone.now()
    requests,   \* the checkout each buyer has in flight: what it has read so far
    imports     \* the import bookkeeping: the task id the key-value store tracks per
                \* owner, the tasks handed to the queue, the import requests in flight

vars == <<catalog, last, task, orders, now, requests, imports>>

(***************************************************************************)
(* Bounds and input sets                                                   *)
(***************************************************************************)
\* import runs are no longer started once this many ProductParameter ids were handed out
MaxParamSeq == 3

\* importing_products.py:21, json_data.get('shipping_price', 300)
DefaultShippingPrice == 300

Owners == {1, 2}

\* order of parameter names, as Python orders the strings used here
NameRank(n) == CASE n = "color" -> 1 [] n = "size" -> 2 [] OTHER -> 3

Max(S) == CHOOSE x \in S : \A y \in S : y <= x

(***************************************************************************)
(* Store helpers                                                           *)
(***************************************************************************)
\* AutoField primary key of a freshly inserted row
NextId(rows) == IF rows = {} THEN 1 ELSE Max({r.id : r \in rows}) + 1

EmptyCatalog ==
    [Shop |-> {}, Category |-> {}, ShopCategory |-> {}, Product |-> {},
     ProductInfo |-> {}, Parameter |-> {}, ValueOfParameter |-> {},
     ProductParameter |-> {}, pp_seq |-> 0]

UserEmail(user_id) == <<"mail", user_id>>

ShopOf(db, user_id) == CHOOSE s \in db.Shop : s.owner = user_id
HasShop(db, user_id) == \E s \in db.Shop : s.owner = user_id

\* shop.product_infos
product_infos(db, shop_id) == {pi \in db.ProductInfo : pi.shop = shop_id}

\* a null column (contact, created_at of a basket)
None == 0

Buyers == {3, 4}

\* the contacts the buyers have saved: one each, and one that buyer 3 has deleted
Contacts ==
    {[id |-> 1, user |-> 3, is_deleted |-> FALSE],
     [id |-> 2, user |-> 4, is_deleted |-> FALSE],
     [id |-> 3, user |-> 3, is_deleted |-> TRUE]}

\* the order tables; bo_seq and so_seq are the last primary keys handed out.  A line
\* item is identified by (order, product_info), which update_or_create keeps unique.
\* rolled_back counts the calls of rollback_product_quantity per seller order
EmptyOrders ==
    [BuyerOrder |-> {}, SellerOrder |-> {}, SellerOrderItem |-> {},
     Contact |-> Contacts, bo_seq |-> 0, so_seq |-> 0, rolled_back |-> {}]

\* the checkouts in flight, per buyer
NoRequests == [user \in Buyers |-> [pc |-> "idle"]]

\* the import requests one owner can have in flight at a time
Slots == {1, 2}

\* nothing tracked, no task queued, no import request in flight
NoImports ==
    [redis |-> [user \in Owners |-> None],
     tasks |-> {},
     seq |-> 0,
     posts |-> [user \in Owners |-> [r \in Slots |-> [pc |-> "idle"]]]]

(***************************************************************************)
(* Database constraints of the catalog tables                              *)
(***************************************************************************)
\* Shop.name is unique: a second shop of that name raises IntegrityError
\* mutant: shop names are not unique
ShopNameTaken_never(db, name) == FALSE

ShopNameTaken(db, name) == \E s \in db.Shop : s.name = name

\* ShopCategory.external_id is unique within its shop
ShopCategoryConflict(db, shop_id, external_id) ==
    \E sc \in db.ShopCategory : sc.shop = shop_id /\ sc.external_id = external_id

\* mutant: the listing table has no uniqueness constraint
ProductInfoConflict_none(db, shop_id, external_id) == FALSE

\* ProductInfo.external_id is unique within its shop
ProductInfoConflict(db, shop_id, external_id) ==
    \E pi \in db.ProductInfo : pi.shop = shop_id /\ pi.external_id = external_id

(***************************************************************************)
(* PartnerProductInfoUpdateSerializer / PartnerProductInfoSerializer       *)
(***************************************************************************)
\* mutant: create() where get_or_create() stands
get_or_create_name_always(rows, name) ==
    rows \cup {[id |-> NextId(rows), name |-> name]}

\* Model.objects.get_or_create(name=name) on a table of [id, name] rows
get_or_create_name(rows, name) ==
    IF \E r \in rows : r.name = name THEN rows
    ELSE rows \cup {[id |-> NextId(rows), name |-> name]}

\* ValueOfParameter.objects.get_or_create(value=value)
get_or_create_value(rows, value) ==
    IF \E r \in rows : r.value = value THEN rows
    ELSE rows \cup {[id |-> NextId(rows), value |-> value]}

ByName(rows, name) == CHOOSE r \in rows : r.name = name
ByValue(rows, value) == CHOOSE r \in rows : r.value = value
ById(rows, id) == CHOOSE r \in rows : r.id = id

RECURSIVE add_parameters_loop(_, _, _)
\* the for loop of add_parameters: one ProductParameter row per parameter_dict
add_parameters_loop(db, product_info_id, product_parameters) ==
    IF product_parameters = <<>> THEN db
    ELSE LET parameter_dict == Head(product_parameters)
             db1 == [db EXCEPT !.Parameter = get_or_create_name(@, parameter_dict.parameter)]
             db2 == [db1 EXCEPT !.ValueOfParameter = get_or_create_value(@, parameter_dict.value)]
             parameter == ByName(db2.Parameter, parameter_dict.parameter)
             value == ByValue(db2.ValueOfParameter, parameter_dict.value)
             db3 == [db2 EXCEPT !.ProductParameter =
                                   @ \cup {[id |-> db2.pp_seq + 1,
                                            product_info |-> product_info_id,
                                            parameter |-> parameter.id,
                                            value |-> value.id]},
                                !.pp_seq = @ + 1]
         IN add_parameters_loop(db3, product_info_id, Tail(product_parameters))

\* mutant: the old parameter rows are kept when the set is replaced
add_parameters_keep_old(db, product_info_id, product_parameters, replace_old) ==
    add_parameters_loop(db, product_info_id, product_parameters)

add_parameters(db, product_info_id, product_parameters, replace_old) ==
    LET db0 == IF replace_old
               THEN [db EXCEPT !.ProductParameter =
                                  {pp \in @ : pp.product_info # product_info_id}]
               ELSE db
    IN add_parameters_loop(db0, product_info_id, product_parameters)

\* mutant: the parameters are replaced but the changed fields are not saved
update_parameters_only(db, instance_id, fields_to_update) ==
    IF "product_parameters" \in DOMAIN fields_to_update
    THEN add_parameters(db, instance_id, fields_to_update["product_parameters"], TRUE)
    ELSE db

\* PartnerProductInfoUpdateSerializer.update: fields_to_update is a function whose
\* domain is the set of fields to write
update(db, instance_id, fields_to_update) ==
    LET db1 == IF "product_parameters" \in DOMAIN fields_to_update
               THEN add_parameters(db, instance_id, fields_to_update["product_parameters"], TRUE)
               ELSE db
        instance == ById(db1.ProductInfo, instance_id)
        Attr(k) == IF k \in DOMAIN fields_to_update THEN fields_to_update[k] ELSE instance[k]
        saved == [instance EXCEPT !.quantity = Attr("quantity"),
                                  !.price = Attr("price"),
                                  !.price_rrc = Attr("price_rrc")]
    IN [db1 EXCEPT !.ProductInfo = (@ \ {instance}) \cup {saved}]

\* PartnerProductInfoSerializer.create; err names the exception raised, "" for none
create(db, shop_id, validated_data) ==
    LET category_external_id == validated_data.category.external_id
        category_name == validated_data.category.name
        db1 == [db EXCEPT !.Category = get_or_create_name(@, category_name)]
        category_object == ByName(db1.Category, category_name)
        found == {sc \in db1.ShopCategory :
                     sc.shop = shop_id /\ sc.category = category_object.id}
    IN  IF found = {} /\ ShopCategoryConflict(db1, shop_id, category_external_id)
        THEN [db |-> db1, err |-> "category_external_id"]
        ELSE
        LET db2 == IF found # {} THEN db1
                   ELSE [db1 EXCEPT !.ShopCategory =
                            @ \cup {[id |-> NextId(@), shop |-> shop_id,
                                     category |-> category_object.id,
                                     external_id |-> category_external_id]}]
            shop_category == CHOOSE sc \in db2.ShopCategory :
                                 sc.shop = shop_id /\ sc.category = category_object.id
            db3 == [db2 EXCEPT !.Product = get_or_create_name(@, validated_data.product.name)]
            product_object == ByName(db3.Product, validated_data.product.name)
        IN  IF ProductInfoConflict(db3, shop_id, validated_data.external_id)
            THEN [db |-> db3, err |-> "IntegrityError"]
            ELSE
            LET product_info == [id |-> NextId(db3.ProductInfo),
                                 product |-> product_object.id,
                                 shop |-> shop_id,
                                 category |-> shop_category.id,
                                 external_id |-> validated_data.external_id,
                                 quantity |-> validated_data.quantity,
                                 price |-> validated_data.price,
                                 price_rrc |-> validated_data.price_rrc]
                db4 == [db3 EXCEPT !.ProductInfo = @ \cup {product_info}]
            IN [db |-> add_parameters(db4, product_info.id,
                                      validated_data.product_parameters, FALSE),
                err |-> ""]

RECURSIVE InIdOrder(_)
\* the rows of a queryset in primary-key order
InIdOrder(rows) ==
    IF rows = {} THEN <<>>
    ELSE LET r == CHOOSE x \in rows : \A y \in rows : x.id <= y.id
         IN <<r>> \o InIdOrder(rows \ {r})

RECURSIVE InsertSorted(_, _)
InsertSorted(sorted, x) ==
    IF sorted = <<>> THEN <<x>>
    ELSE IF NameRank(Head(sorted).parameter) <= NameRank(x.parameter)
         THEN <<Head(sorted)>> \o InsertSorted(Tail(sorted), x)
         ELSE <<x>> \o sorted

RECURSIVE SortByParameter(_)
\* sorted(product_parameters, key=lambda x: x['parameter']), a stable sort
SortByParameter(product_parameters) ==
    IF product_parameters = <<>> THEN <<>>
    ELSE InsertSorted(SortByParameter(SubSeq(product_parameters, 1, Len(product_parameters) - 1)),
                      product_parameters[Len(product_parameters)])

\* ProductParameterSerializer(many=True) over instance.product_parameters
ParametersData(db, instance_id) ==
    LET rows == InIdOrder({pp \in db.ProductParameter : pp.product_info = instance_id})
    IN [i \in 1..Len(rows) |->
           [parameter |-> ById(db.Parameter, rows[i].parameter).name,
            value |-> ById(db.ValueOfParameter, rows[i].value).value]]

\* mutant: the parameters count as changed on every upsert
FieldsToUpdate_always_parameters(db, instance, validated_data) ==
    [key \in {"product_parameters"}
              \cup {k \in {"quantity", "price", "price_rrc"} : instance[k] # validated_data[k]}
        |-> validated_data[key]]

\* the fields_to_update dict update_or_create builds for an existing instance
FieldsToUpdate(db, instance, validated_data) ==
    LET product_parameters_old == SortByParameter(ParametersData(db, instance.id))
        product_parameters_new == validated_data.product_parameters
        changed == {key \in {"quantity", "price", "price_rrc"} :
                       instance[key] # validated_data[key]}
                   \cup (IF product_parameters_old # SortByParameter(product_parameters_new)
                         THEN {"product_parameters"} ELSE {})
    IN [key \in changed |-> validated_data[key]]

\* PartnerProductInfoSerializer.update_or_create
update_or_create(db, shop_id, validated_data) ==
    LET found == {pi \in product_infos(db, shop_id) :
                     pi.external_id = validated_data.external_id}
    IN  IF found # {}
        THEN LET instance == CHOOSE x \in found : \A y \in found : x.id <= y.id
                 fields_to_update == FieldsToUpdate(db, instance, validated_data)
             IN [db |-> IF DOMAIN fields_to_update # {}
                        THEN update(db, instance.id, fields_to_update)
                        ELSE db,
                 err |-> ""]
        ELSE create(db, shop_id, validated_data)

(***************************************************************************)
(* import_products                                                         *)
(***************************************************************************)
\* PartnerCategorySerializer: external_id = IntegerField(min_value=1)
ValidCategory(category) == category.external_id >= 1

\* the model fields quantity, price and price_rrc are non-negative integers
ValidListingFields(product_data) ==
    /\ product_data.quantity >= 0
    /\ product_data.price >= 0
    /\ product_data.price_rrc >= 0

\* a newly created Shop is open
ShopDefaultIsOpen == TRUE

\* the category entries that lack a key
Incomplete(categories_source) ==
    {i \in 1..Len(categories_source) :
        {"id", "name"} \ DOMAIN categories_source[i] # {}}

\* mutant: an incomplete category entry is reported as the key categories
ParseErrorField_container(json_data) ==
    IF "shop" \notin DOMAIN json_data THEN "shop"
    ELSE IF "categories" \notin DOMAIN json_data THEN "categories"
    ELSE IF Incomplete(json_data.categories) # {} THEN "categories"
    ELSE IF "goods" \notin DOMAIN json_data THEN "goods"
    ELSE ""

\* the key whose lookup raises KeyError in lines 12-16, "" when none does: shop, then
\* categories, then id before name of the first incomplete category entry, then goods
ParseErrorField(json_data) ==
    IF "shop" \notin DOMAIN json_data THEN "shop"
    ELSE IF "categories" \notin DOMAIN json_data THEN "categories"
    ELSE IF Incomplete(json_data.categories) # {}
         THEN LET i == CHOOSE x \in Incomplete(json_data.categories) :
                           \A y \in Incomplete(json_data.categories) : x <= y
              IN IF "id" \notin DOMAIN json_data.categories[i] THEN "id" ELSE "name"
    ELSE IF "goods" \notin DOMAIN json_data THEN "goods"
    ELSE ""

\* str(error) of a KeyError: the key in quotes
KeyErrorStr(key) == <<"'", key, "'">>

\* categories = {category['id']: {...} for category in categories_source}: a later
\* entry of the same id replaces an earlier one
CategoriesDict(categories_source) ==
    [id \in {categories_source[i].id : i \in 1..Len(categories_source)} |->
        LET i == Max({j \in 1..Len(categories_source) : categories_source[j].id = id})
        IN [name |-> categories_source[i].name, external_id |-> id]]

ProductKeys == {"parameters", "id", "name", "price", "price_rrc", "quantity"}

\* product_data of lines 44-53
ProductData(categories, product_source) ==
    [external_id |-> product_source.id,
     category |-> categories[product_source.category],
     product |-> [name |-> product_source.name],
     product_parameters |->
        [i \in 1..Len(product_source.parameters) |->
            [parameter |-> product_source.parameters[i][1],
             value |-> product_source.parameters[i][2]]],
     price |-> product_source.price,
     price_rrc |-> product_source.price_rrc,
     quantity |-> product_source.quantity]

RECURSIVE ValidateProducts(_, _)
\* the loop of lines 34-65: the error it returns at the first bad product, or the
\* validated_product_infos
ValidateProducts(categories, products) ==
    IF products = <<>> THEN [error |-> "", infos |-> <<>>]
    ELSE LET product_source == Head(products) IN
         IF "category" \notin DOMAIN product_source
              \/ product_source.category \notin DOMAIN categories
         THEN [error |-> "category parse or matching error", infos |-> <<>>]
         ELSE IF ~ (ProductKeys \subseteq DOMAIN product_source)
         THEN [error |-> "product parse error", infos |-> <<>>]
         ELSE LET product_data == ProductData(categories, product_source) IN
              IF ~ (ValidCategory(product_data.category) /\ ValidListingFields(product_data))
              THEN [error |-> "invalid product_info data", infos |-> <<>>]
              ELSE LET rest == ValidateProducts(categories, Tail(products)) IN
                   [error |-> rest.error,
                    infos |-> IF rest.error = "" THEN <<product_data>> \o rest.infos ELSE <<>>]

RECURSIVE CreateEach(_, _, _)
\* lines 68-69
CreateEach(db, shop_id, infos) ==
    IF infos = <<>> THEN [db |-> db, err |-> ""]
    ELSE LET r == create(db, shop_id, Head(infos))
         IN IF r.err # "" THEN r ELSE CreateEach(r.db, shop_id, Tail(infos))

RECURSIVE UpdateOrCreateEach(_, _, _)
\* lines 74-75
UpdateOrCreateEach(db, shop_id, infos) ==
    IF infos = <<>> THEN [db |-> db, err |-> ""]
    ELSE LET r == update_or_create(db, shop_id, Head(infos))
         IN IF r.err # "" THEN r ELSE UpdateOrCreateEach(r.db, shop_id, Tail(infos))

\* mutant: the absent listings are deleted
ZeroOutAbsent_delete(db, shop_id, external_ids) ==
    [db EXCEPT !.ProductInfo =
        {pi \in @ : ~ (pi.shop = shop_id /\ pi.external_id \notin external_ids)}]

\* lines 71-72: shop.product_infos.exclude(external_id__in=...).update(quantity=0)
ZeroOutAbsent(db, shop_id, external_ids) ==
    [db EXCEPT !.ProductInfo =
        {IF pi.shop = shop_id /\ pi.external_id \notin external_ids
         THEN [pi EXCEPT !.quantity = 0] ELSE pi : pi \in @}]

ExternalIds(infos) == {infos[i].external_id : i \in 1..Len(infos)}

\* line 67: the bulk-create branch is taken
BulkCreate(db, shop, shop_created) == shop_created \/ product_infos(db, shop.id) = {}

\* lines 67-75
CommitProducts(db, shop, shop_created, infos) ==
    IF BulkCreate(db, shop, shop_created)
    THEN CreateEach(db, shop.id, infos)
    ELSE UpdateOrCreateEach(ZeroOutAbsent(db, shop.id, ExternalIds(infos)), shop.id, infos)

\* lines 20-28: Shop.objects.get_or_create(owner_id=user_id, defaults=...)
ShopGetOrCreate(db, user_id, json_data) ==
    IF HasShop(db, user_id)
    THEN [db |-> db, shop |-> ShopOf(db, user_id), created |-> FALSE, err |-> ""]
    ELSE IF ShopNameTaken(db, json_data.shop)
    THEN [db |-> db, shop |-> [id |-> 0], created |-> FALSE, err |-> "IntegrityError"]
    ELSE LET shop == [id |-> NextId(db.Shop),
                      owner |-> user_id,
                      name |-> json_data.shop,
                      email |-> IF "email" \in DOMAIN json_data
                                THEN json_data.email ELSE UserEmail(user_id),
                      base_shipping_price |->
                          IF "shipping_price" \in DOMAIN json_data
                          THEN json_data.shipping_price ELSE DefaultShippingPrice,
                      is_open |-> ShopDefaultIsOpen]
         IN [db |-> [db EXCEPT !.Shop = @ \cup {shop}],
             shop |-> shop, created |-> TRUE, err |-> ""]

\* the task import_products(user_id, user_email, json_data): the store it leaves, its
\* result ("FAILURE" is the task state when an exception leaves the task) and the
\* branch of line 67 it took, "" when it returned before
import_products(db, user_id, json_data) ==
    IF ParseErrorField(json_data) # ""
    THEN [db |-> db, result |-> "parse error", branch |-> "",
          invalid_field |-> KeyErrorStr(ParseErrorField(json_data))]
    ELSE
    LET got == ShopGetOrCreate(db, user_id, json_data) IN
    IF got.err # ""
    THEN [db |-> db, result |-> "shop_name is already occupied", branch |-> ""]
    ELSE
    LET validated == ValidateProducts(CategoriesDict(json_data.categories), json_data.goods) IN
    IF validated.error # ""
    THEN [db |-> got.db, result |-> validated.error, branch |-> ""]
    ELSE
    LET done == CommitProducts(got.db, got.shop, got.created, validated.infos) IN
    [db |-> done.db, result |-> IF done.err = "" THEN "ok" ELSE "FAILURE",
     branch |-> IF BulkCreate(got.db, got.shop, got.created) THEN "create" ELSE "reimport"]

(***************************************************************************)
(* Inputs of the import specification                                      *)
(***************************************************************************)
\* longest goods list of a payload
MaxGoods == 2

Good(id, category, name, parameters, price, price_rrc, quantity) ==
    [id |-> id, category |-> category, name |-> name, parameters |-> parameters,
     price |-> price, price_rrc |-> price_rrc, quantity |-> quantity]

\* goods that pass validation: two versions of listing 10, of category 1 and of
\* category 2, and one listing 11 of category 2
ValidGoods ==
    { Good(10, 1, "Ball", << <<"color", "red">> >>, 100, 150, 5),
      Good(10, 2, "Ball", << <<"size", "S">>, <<"color", "red">> >>, 120, 150, 7),
      Good(11, 2, "Bat", <<>>, 200, 250, 3) }

\* goods that fail: a category id the payload does not list, a missing price, a
\* negative quantity
BadGoods ==
    { Good(11, 3, "Bat", <<>>, 200, 250, 3),
      [id |-> 11, category |-> 1, name |-> "Bat", parameters |-> <<>>,
       price_rrc |-> 250, quantity |-> 3],
      Good(11, 1, "Bat", <<>>, 200, 250, 0 - 1) }

Toys == [id |-> 1, name |-> "Toys"]

\* the second list gives external id 1 to another category than the first
CategoryLists ==
    { << Toys, [id |-> 2, name |-> "Games"] >>,
      << [id |-> 1, name |-> "Games"], [id |-> 2, name |-> "Toys"] >> }

ShopNames == {"A", "B"}

ValidLists == UNION {[1..n -> ValidGoods] : n \in 0..MaxGoods}

\* owner 1 uploads every list of valid goods under the first category list, the lists
\* of at most one good under the renumbered one, each bad good, and a payload without
\* goods
Payloads1 ==
    {[shop |-> "A", categories |-> c, goods |-> g] :
        <<c, g>> \in {x \in CategoryLists \X ValidLists :
                         x[1] = << Toys, [id |-> 2, name |-> "Games"] >> \/ Len(x[2]) <= 1}}
    \cup {[shop |-> "A", categories |-> <<Toys>>, goods |-> <<b>>] : b \in BadGoods}
    \cup {[shop |-> "A", categories |-> <<Toys>>]}

\* owner 2 uploads one listing of the same names under either shop name
Payloads2 ==
    {[shop |-> n, categories |-> <<Toys>>,
      goods |-> << Good(10, 1, "Ball", << <<"color", "red">> >>, 100, 150, 5) >>] :
        n \in ShopNames}

Payloads(user_id) == IF user_id = 1 THEN Payloads1 ELSE Payloads2

(***************************************************************************)
(* Actions                                                                 *)
(***************************************************************************)
NoRequest == [op |-> "none", result |-> "", branch |-> "", repeat |-> FALSE]
NoTask == [user_id |-> 0]

\* the task import_products run to completion for one owner and payload
Import(user_id, json_data) ==
    /\ catalog.pp_seq < MaxParamSeq
    /\ LET run == import_products(catalog, user_id, json_data)
       IN /\ catalog' = run.db
          /\ last' = [op |-> "import", result |-> run.result, branch |-> run.branch,
                    repeat |-> FALSE]
    /\ UNCHANGED <<task, orders, now, requests, imports>>

\* the observed task run to completion; repeat tells that the request before it was
\* this task too
RunTask ==
    /\ catalog.pp_seq < MaxParamSeq
    /\ LET run == import_products(catalog, task.user_id, task.json_data)
       IN /\ catalog' = run.db
          /\ last' = [op |-> "task", result |-> run.result, branch |-> run.branch,
                    repeat |-> last.op = "task"]
    /\ UNCHANGED <<task, orders, now, requests, imports>>

\* PartnerProductView.perform_destroy on a listing of the caller's shop
perform_destroy(db, instance) ==
    [db EXCEPT !.ProductInfo = (@ \ {instance}) \cup {[instance EXCEPT !.quantity = 0]}]

PartnerDelete(user_id) ==
    /\ HasShop(catalog, user_id)
    /\ \E instance \in product_infos(catalog, ShopOf(catalog, user_id).id) :
          /\ catalog' = perform_destroy(catalog, instance)
          /\ last' = [op |-> "partner_delete", result |-> "204", branch |-> "",
                    repeat |-> FALSE]
    /\ UNCHANGED <<task, orders, now, requests, imports>>

(***************************************************************************)
(* SpecImport: any sequence of imports and partner deletes                 *)
(***************************************************************************)
InitImport ==
    /\ catalog = EmptyCatalog
    /\ last = NoRequest
    /\ task = NoTask
    /\ orders = EmptyOrders
    /\ now = 1
    /\ requests = NoRequests
    /\ imports = NoImports

NextImport ==
    \/ \E user_id \in Owners : \E json_data \in Payloads(user_id) : Import(user_id, json_data)
    \/ \E user_id \in Owners : PartnerDelete(user_id)

SpecImport == InitImport /\ [][NextImport]_vars

(***************************************************************************)
(* SpecShop: shops created by hand (ShopView) and by imports               *)
(***************************************************************************)
ShopDefaultShippingPrice == DefaultShippingPrice

\* ShopView.create with ShopSerializer: the name must be free and the caller must not
\* own a shop yet
ShopView_create(db, user, name) ==
    IF ShopNameTaken(db, name) \/ HasShop(db, user)
    THEN [db |-> db, status |-> "400"]
    ELSE [db |-> [db EXCEPT !.Shop = @ \cup {[id |-> NextId(db.Shop),
                                               owner |-> user,
                                               name |-> name,
                                               email |-> UserEmail(user),
                                               base_shipping_price |-> ShopDefaultShippingPrice,
                                               is_open |-> ShopDefaultIsOpen]}],
          status |-> "201"]

ShopCreate(user, name) ==
    /\ LET response == ShopView_create(catalog, user, name)
       IN /\ catalog' = response.db
          /\ last' = [op |-> "shop_create", result |-> response.status, branch |-> "",
                    repeat |-> FALSE]
    /\ UNCHANGED <<task, orders, now, requests, imports>>

\* either owner uploads no good or one listing under either shop name
ShopPayloads ==
    {[shop |-> n, categories |-> <<Toys>>, goods |-> g] :
        n \in ShopNames,
        g \in {<<>>, << Good(10, 1, "Ball", << <<"color", "red">> >>, 100, 150, 5) >>,
               << Good(10, 1, "Ball", <<>>, 100, 150, 4) >>}}

\* payloads that lack a key: shop; categories and goods; goods; the name of the first
\* category and the id of the second; the id of the second category; the id of the
\* only category and goods
UnparsablePayloads ==
    {[categories |-> <<Toys>>, goods |-> <<>>],
     [shop |-> "A"],
     [shop |-> "A", categories |-> <<Toys>>],
     [shop |-> "A", categories |-> << [id |-> 1], [name |-> "Games"] >>, goods |-> <<>>],
     [shop |-> "A", categories |-> << Toys, [name |-> "Games"] >>, goods |-> <<>>],
     [shop |-> "A", categories |-> << [name |-> "Games"] >>]}

NextShop ==
    \/ \E user \in Owners : \E name \in ShopNames : ShopCreate(user, name)
    \/ \E user_id \in Owners : \E json_data \in ShopPayloads \cup UnparsablePayloads :
          Import(user_id, json_data)

SpecShop == InitImport /\ [][NextShop]_vars

(***************************************************************************)
(* SpecTask: one import task of owner 1, any payload, run any number of    *)
(* times among imports that prepare the catalogs it meets                  *)
(***************************************************************************)
GoodsOf(json_data) == IF "goods" \in DOMAIN json_data THEN json_data.goods ELSE <<>>

\* the second version of listing 10 with its parameters in the other order
ReorderedGood == Good(10, 2, "Ball", << <<"color", "red">>, <<"size", "S">> >>, 120, 150, 7)

\* the uploads that prepare the store: at most one valid good per payload
Prepare1 ==
    {[shop |-> "A", categories |-> << Toys, [id |-> 2, name |-> "Games"] >>, goods |-> g] :
        g \in {<<>>} \cup {<<v>> : v \in ValidGoods \cup {ReorderedGood}}}

Prepare2 ==
    {[shop |-> "B", categories |-> <<Toys>>,
      goods |-> << Good(10, 1, "Ball", << <<"color", "red">> >>, 100, 150, 5) >>]}

Prepare(user_id) == IF user_id = 1 THEN Prepare1 ELSE Prepare2

InitTask ==
    /\ catalog = EmptyCatalog
    /\ last = NoRequest
    /\ task \in {[user_id |-> 1, json_data |-> p] : p \in Payloads1}
    /\ orders = EmptyOrders
    /\ now = 1
    /\ requests = NoRequests
    /\ imports = NoImports

NextTask ==
    \/ \E user_id \in Owners : \E json_data \in Prepare(user_id) : Import(user_id, json_data)
    \/ \E user_id \in Owners : PartnerDelete(user_id)
    \/ RunTask

SpecTask == InitTask /\ [][NextTask]_vars

(***************************************************************************)
(* Baskets (views.py, BasketView)                                          *)
(***************************************************************************)
\* mutant: every order of the buyer counts as a basket
basket_queryset_any(od, user) == {b \in od.BuyerOrder : b.user = user}

\* user.basket_queryset: the buyer's orders in state basket
basket_queryset(od, user) == {b \in od.BuyerOrder : b.user = user /\ b.state = "basket"}

\* queryset.first(): the row of the lowest primary key, or None
first(rows) ==
    IF rows = {} THEN [id |-> None]
    ELSE CHOOSE r \in rows : \A x \in rows : r.id <= x.id

\* user.basket_object
basket_object(od, user) == first(basket_queryset(od, user))

\* buyer_order.seller_orders
seller_orders(od, buyer_order_id) == {so \in od.SellerOrder : so.buyer_order = buyer_order_id}

\* seller_order.ordered_items
ordered_items(od, order_id) == {it \in od.SellerOrderItem : it.order = order_id}

\* OrderItemBaseSerializer(many=True).is_valid: every product_info is the primary key
\* of a listing and every quantity is at least 1
ValidOrderedItems(db, data) ==
    \A i \in DOMAIN data :
        /\ \E pi \in db.ProductInfo : pi.id = data[i].product_info
        /\ data[i].quantity >= 1

\* validated_ordered_items: the last entry of a listing wins
OrderedItemsDict(data) ==
    [id \in {data[i].product_info : i \in DOMAIN data} |->
        data[Max({i \in DOMAIN data : data[i].product_info = id})].quantity]

shops_with_ordered_products(db, ids) ==
    {shop \in db.Shop : shop.is_open /\ \E pi \in product_infos(db, shop.id) : pi.id \in ids}

\* mutant: every ordered listing is prefetched for every shop
PrefetchedInfos_all(db, shop_id, ids) == {pi \in db.ProductInfo : pi.id \in ids}

\* shop.product_infos.all() under the Prefetch of post: the ordered listings of the shop
PrefetchedInfos(db, shop_id, ids) == {pi \in product_infos(db, shop_id) : pi.id \in ids}

\* mutant: the quantity of a line item that exists already is added to
UpsertedItem_summed(od, order_id, product_info, quantity) ==
    LET old == {it \in od.SellerOrderItem :
                   it.order = order_id /\ it.product_info = product_info.id}
    IN [order |-> order_id,
        product_info |-> product_info.id,
        quantity |-> IF old = {} THEN quantity ELSE quantity + (CHOOSE it \in old : TRUE).quantity,
        purchase_price |-> product_info.price,
        purchase_price_rrc |-> product_info.price_rrc]

\* SellerOrderItem.objects.update_or_create(order, product_info, defaults): the row
\* the line item becomes, whether it existed or not
UpsertedItem(od, order_id, product_info, quantity) ==
    [order |-> order_id,
     product_info |-> product_info.id,
     quantity |-> quantity,
     purchase_price |-> product_info.price,
     purchase_price_rrc |-> product_info.price_rrc]

RECURSIVE UpdateOrCreateItems(_, _, _, _)
\* the inner loop of post: SellerOrderItem.objects.update_or_create per listing
UpdateOrCreateItems(od, order_id, infos, validated_ordered_items) ==
    IF infos = <<>> THEN od
    ELSE LET product_info == Head(infos)
             item == UpsertedItem(od, order_id, product_info,
                                  validated_ordered_items[product_info.id])
             others == {it \in od.SellerOrderItem :
                           ~(it.order = order_id /\ it.product_info = product_info.id)}
         IN UpdateOrCreateItems([od EXCEPT !.SellerOrderItem = others \cup {item}],
                                order_id, Tail(infos), validated_ordered_items)

RECURSIVE AddToShops(_, _, _, _, _)
\* the outer loop of post: SellerOrder.objects.get_or_create per open shop
AddToShops(db, od, basket_id, shops, validated_ordered_items) ==
    IF shops = <<>> THEN od
    ELSE LET shop == Head(shops)
             Matches(so) == so.buyer_order = basket_id /\ so.shop = shop.id
                            /\ so.state = "basket"
             od1 == IF \E so \in od.SellerOrder : Matches(so) THEN od
                    ELSE [od EXCEPT !.SellerOrder =
                                       @ \cup {[id |-> od.so_seq + 1,
                                                buyer_order |-> basket_id,
                                                shop |-> shop.id,
                                                state |-> "basket",
                                                shipping_price |-> shop.base_shipping_price,
                                                contact |-> None,
                                                created_at |-> None]},
                                    !.so_seq = @ + 1]
             order == first({so \in od1.SellerOrder : Matches(so)})
             infos == InIdOrder(PrefetchedInfos(db, shop.id, DOMAIN validated_ordered_items))
         IN AddToShops(db, UpdateOrCreateItems(od1, order.id, infos, validated_ordered_items),
                       basket_id, Tail(shops), validated_ordered_items)

\* BasketView.post: the basket is created before the items are validated
BasketView_post(db, od, user, data) ==
    LET od1 == IF basket_object(od, user).id # None THEN od
               ELSE [od EXCEPT !.BuyerOrder =
                                  @ \cup {[id |-> od.bo_seq + 1, user |-> user,
                                           state |-> "basket", created_at |-> None]},
                               !.bo_seq = @ + 1]
        basket == basket_object(od1, user)
        validated_ordered_items == OrderedItemsDict(data)
        shops == InIdOrder(shops_with_ordered_products(db, DOMAIN validated_ordered_items))
    IN IF ~ValidOrderedItems(db, data)
       THEN [orders |-> od1, status |-> "400"]
       ELSE [orders |-> AddToShops(db, od1, basket.id, shops, validated_ordered_items),
             status |-> "201"]

(***************************************************************************)
(* Checkout (views.py, OrderViewSet.create)                                *)
(***************************************************************************)
\* BuyerOrderSerializer.contact_id: a contact of the caller that is not deleted
ValidContact(od, user, contact_id) ==
    \E c \in od.Contact : c.id = contact_id /\ c.user = user /\ ~c.is_deleted

\* basket_queryset.prefetch_related(...).first(): the basket, its seller orders, their
\* items and the listings of the items, as the queries see them
Prefetch(db, od, user) ==
    LET order == first(basket_queryset(od, user))
        all_orders == seller_orders(od, order.id)
        items == {it \in od.SellerOrderItem : \E so \in all_orders : it.order = so.id}
    IN [order |-> order,
        all_orders |-> all_orders,
        ordered_items |-> items,
        product_infos |-> {pi \in db.ProductInfo : \E it \in items : it.product_info = pi.id}]

RECURSIVE InItemOrder(_)
\* the items of the seller orders, seller order by seller order
InItemOrder(items) ==
    IF items = {} THEN <<>>
    ELSE LET it == CHOOSE x \in items : \A y \in items :
                       \/ x.order < y.order
                       \/ x.order = y.order /\ x.product_info <= y.product_info
         IN <<it>> \o InItemOrder(items \ {it})

NothingChecked == [acceptable_order |-> TRUE, quantity_to_update |-> <<>>, annotated |-> {}]

RECURSIVE CheckItems_clamped(_, _, _)
\* mutant: an item asking for more than is in stock takes what is left
CheckItems_clamped(checked, items, read) ==
    IF items = <<>> THEN checked
    ELSE LET ordered_item == Head(items)
             available_quantity == ById(read.product_infos, ordered_item.product_info).quantity
             result_quantity == available_quantity - ordered_item.quantity
             staged == IF result_quantity < 0 THEN 0 ELSE result_quantity
         IN CheckItems_clamped(
                [checked EXCEPT !.quantity_to_update =
                                    (ordered_item.product_info :> staged) @@ @],
                Tail(items), read)

RECURSIVE CheckItems_unchecked(_, _, _)
\* mutant: every item stages what its listing is left with, short of stock or not
CheckItems_unchecked(checked, items, read) ==
    IF items = <<>> THEN checked
    ELSE LET ordered_item == Head(items)
             available_quantity == ById(read.product_infos, ordered_item.product_info).quantity
         IN CheckItems_unchecked(
                [checked EXCEPT !.quantity_to_update =
                     (ordered_item.product_info :> available_quantity - ordered_item.quantity)
                     @@ @],
                Tail(items), read)

RECURSIVE CheckItems_first(_, _, _)
\* mutant: only the first item that asks for more than is in stock is annotated
CheckItems_first(checked, items, read) ==
    IF items = <<>> THEN checked
    ELSE LET ordered_item == Head(items)
             available_quantity == ById(read.product_infos, ordered_item.product_info).quantity
             result_quantity == available_quantity - ordered_item.quantity
             checked1 ==
                 IF result_quantity < 0
                 THEN [checked EXCEPT !.acceptable_order = FALSE,
                                      !.annotated = IF checked.acceptable_order
                                                    THEN {ordered_item.product_info} ELSE @]
                 ELSE IF checked.acceptable_order
                 THEN [checked EXCEPT !.quantity_to_update =
                                          (ordered_item.product_info :> result_quantity) @@ @]
                 ELSE checked
         IN CheckItems_first(checked1, Tail(items), read)

RECURSIVE CheckItems(_, _, _)
\* the check loop: an item asking for more than is in stock is annotated and makes the
\* order unacceptable; the others stage the quantity their listing is left with
CheckItems(checked, items, read) ==
    IF items = <<>> THEN checked
    ELSE LET ordered_item == Head(items)
             ordered_quantity == ordered_item.quantity
             available_quantity == ById(read.product_infos, ordered_item.product_info).quantity
             result_quantity == available_quantity - ordered_quantity
             checked1 ==
                 IF result_quantity < 0
                 THEN [checked EXCEPT !.acceptable_order = FALSE,
                                      !.annotated = @ \cup {ordered_item.product_info}]
                 ELSE IF checked.acceptable_order
                 THEN [checked EXCEPT !.quantity_to_update =
                                          (ordered_item.product_info :> result_quantity) @@ @]
                 ELSE checked
         IN CheckItems(checked1, Tail(items), read)

\* mutant: the staged quantities leave the stock as it was
UpdateQuantities_keep(db, items, quantity_to_update) == db

\* ProductInfo.objects.filter(id=...).update(quantity=...) for the items of a seller order
UpdateQuantities(db, items, quantity_to_update) ==
    [db EXCEPT !.ProductInfo =
        {IF \E it \in items : it.product_info = pi.id
         THEN [pi EXCEPT !.quantity = quantity_to_update[pi.id]]
         ELSE pi : pi \in @}]

\* seller_order.save() and order.save(): the row of that primary key becomes the object
Save(rows, object) == {r \in rows : r.id # object.id} \cup {object}

\* one round of the confirmation loop: the stock of the seller order's items, then the
\* seller order itself
ConfirmSellerOrder(db, od, seller_order, read, quantity_to_update, users_contact, current_date) ==
    LET items == {it \in read.ordered_items : it.order = seller_order.id}
    IN [db |-> UpdateQuantities(db, items, quantity_to_update),
        orders |-> [od EXCEPT !.SellerOrder =
                       Save(@, [seller_order EXCEPT !.contact = users_contact,
                                                    !.state = "new",
                                                    !.created_at = current_date])]]

\* the stock of the listings of the items, as the store holds it
StockOf(db, items) ==
    [id \in {it.product_info : it \in items} |-> ById(db.ProductInfo, id).quantity]

\* send_confirmation_email.delay(seller_order.shop.email, ...): the message queued for
\* the seller, with the state of the seller order and the stock of its listings in
\* the store at that moment
SellerMail(db, od, seller_order, read) ==
    [to |-> ById(db.Shop, seller_order.shop).email,
     kind |-> "seller",
     order |-> seller_order.id,
     state |-> ById(od.SellerOrder, seller_order.id).state,
     stock |-> StockOf(db, {it \in read.ordered_items : it.order = seller_order.id})]

\* send_confirmation_email.delay(user.email, ...): the message queued for the buyer
BuyerMail(db, od, user, read) ==
    [to |-> UserEmail(user),
     kind |-> "buyer",
     order |-> read.order.id,
     state |-> ById(od.BuyerOrder, read.order.id).state,
     stock |-> StockOf(db, read.ordered_items)]

\* mutant: the seller is notified before the stock and the seller order are written
Notified_before(before, after) == before

\* the store the seller's message is sent from: the one the round has written
Notified(before, after) == after

RECURSIVE ConfirmSellerOrders(_, _, _, _, _, _, _)
\* the confirmation loop: per seller order the stock, the seller order, the message
ConfirmSellerOrders(db, od, all_orders, read, quantity_to_update, users_contact, current_date) ==
    IF all_orders = <<>> THEN [db |-> db, orders |-> od, mails |-> <<>>]
    ELSE LET done == ConfirmSellerOrder(db, od, Head(all_orders), read, quantity_to_update,
                                        users_contact, current_date)
             seen == Notified([db |-> db, orders |-> od], done)
             rest == ConfirmSellerOrders(done.db, done.orders, Tail(all_orders), read,
                                         quantity_to_update, users_contact, current_date)
         IN [db |-> rest.db, orders |-> rest.orders,
             mails |-> <<SellerMail(seen.db, seen.orders, Head(all_orders), read)>>
                       \o rest.mails]

\* order.state = accepted; order.created_at = current_date; order.save()
AcceptOrder(od, order, current_date) ==
    [od EXCEPT !.BuyerOrder = Save(@, [order EXCEPT !.state = "accepted",
                                                    !.created_at = current_date])]

\* OrderViewSet.create, run from its first query to its response
OrderViewSet_create(db, od, user, contact_id, current_date) ==
    LET read == Prefetch(db, od, user)
        checked == CheckItems(NothingChecked, InItemOrder(read.ordered_items), read)
        confirmed == ConfirmSellerOrders(db, od, InIdOrder(read.all_orders), read,
                                         checked.quantity_to_update, contact_id, current_date)
        accepted == AcceptOrder(confirmed.orders, read.order, current_date)
    IN IF read.order.id = None
       THEN [db |-> db, orders |-> od, status |-> "200", annotated |-> {}, mails |-> <<>>]
       ELSE IF ~ValidContact(od, user, contact_id)
       THEN [db |-> db, orders |-> od, status |-> "400", annotated |-> {}, mails |-> <<>>]
       ELSE IF checked.acceptable_order
       THEN [db |-> confirmed.db,
             orders |-> accepted,
             status |-> "201", annotated |-> checked.annotated,
             mails |-> confirmed.mails \o <<BuyerMail(confirmed.db, accepted, user, read)>>]
       ELSE [db |-> db, orders |-> od, status |-> "206", annotated |-> checked.annotated,
             mails |-> <<>>]

(***************************************************************************)
(* Spec: buyers fill baskets and check out, one request at a time          *)
(***************************************************************************)
MaxQty == 2
MaxOrders == 2
MaxSellerOrders == 4

\* the catalog the buyers shop in: two listings of shop A, one of shop B
SeedCatalog ==
    LET a == [shop |-> "A", categories |-> <<Toys>>,
              goods |-> << Good(10, 1, "Ball", <<>>, 100, 150, 2),
                           Good(11, 1, "Bat", <<>>, 200, 250, 1) >>]
        b == [shop |-> "B", categories |-> <<Toys>>,
              goods |-> << Good(10, 1, "Ball", <<>>, 110, 150, 1) >>]
    IN import_products(import_products(EmptyCatalog, 1, a).db, 2, b).db

Item(product_info, quantity) == [product_info |-> product_info, quantity |-> quantity]

\* request bodies of basket-add: the first listing of shop A, the other listing of
\* shop A with the one of shop B, a listing named twice, an unknown listing, a
\* quantity of zero
BasketRequests ==
    {<<Item(1, q)>> : q \in 1..MaxQty}
    \cup {<<Item(2, 1), Item(3, q)>> : q \in 1..MaxQty}
    \cup {<<Item(1, MaxQty), Item(1, 1)>>, <<Item(99, 1)>>, <<Item(1, 0)>>,
          <<Item(1, 1), Item(99, 1)>>}

\* buyer 3 sends any of them, buyer 4 asks for one piece of the first listing
BasketRequestsOf(user) == IF user = 3 THEN BasketRequests ELSE {<<Item(1, 1)>>}

\* contact_id of a checkout: the buyers' contacts, a deleted one, an unknown one
ContactIds == {1, 2, 3, 9}

BasketAdd(user, data) ==
    /\ \A u \in Buyers : requests[u].pc \in {"idle", "done"}
    /\ basket_object(orders, user).id # None \/ orders.bo_seq < MaxOrders
    /\ orders.so_seq < MaxSellerOrders
    /\ LET response == BasketView_post(catalog, orders, user, data)
       IN /\ orders' = response.orders
          /\ last' = [op |-> "basket_add", result |-> response.status, user |-> user]
    /\ UNCHANGED <<catalog, task, now, requests, imports>>

Checkout(user, contact_id) ==
    /\ LET response == OrderViewSet_create(catalog, orders, user, contact_id, now)
       IN /\ catalog' = response.db
          /\ orders' = response.orders
          /\ now' = IF response.status = "201" THEN now + 1 ELSE now
          /\ last' = [op |-> "checkout", result |-> response.status, user |-> user,
                    contact |-> contact_id, annotated |-> response.annotated,
                    mails |-> response.mails]
    /\ UNCHANGED <<task, requests, imports>>

Init ==
    /\ catalog = SeedCatalog
    /\ last = NoRequest
    /\ task = NoTask
    /\ orders = EmptyOrders
    /\ now = 1
    /\ requests = NoRequests
    /\ imports = NoImports

Next ==
    \/ \E user \in Buyers : \E data \in BasketRequestsOf(user) : BasketAdd(user, data)
    \/ \E user \in Buyers : \E contact_id \in ContactIds : Checkout(user, contact_id)

Spec == Init /\ [][Next]_vars

(***************************************************************************)
(* SpecBasket: buyers fill baskets while partners open and close shops     *)
(***************************************************************************)
\* mutant: a valid state flips the shop, whatever the state says
PartnerStateView_post_flip(db, user, state) ==
    IF state \notin {"on", "off"}
    THEN [db |-> db, status |-> "400"]
    ELSE LET users_shop == ShopOf(db, user)
         IN [db |-> [db EXCEPT !.Shop = Save(@, [users_shop EXCEPT !.is_open = ~@])],
             status |-> "201"]

\* PartnerStateView.post: 'on' opens the caller's shop, 'off' closes it
PartnerStateView_post(db, user, state) ==
    IF state \notin {"on", "off"}
    THEN [db |-> db, status |-> "400"]
    ELSE LET users_shop == ShopOf(db, user)
         IN [db |-> [db EXCEPT !.Shop = Save(@, [users_shop EXCEPT !.is_open = (state = "on")])],
             status |-> "201"]

PartnerStates == {"on", "off", "closed"}

PartnerStatePost(user, state) ==
    /\ HasShop(catalog, user)
    /\ LET response == PartnerStateView_post(catalog, user, state)
       IN /\ catalog' = response.db
          /\ last' = [op |-> "partner_state", result |-> response.status, user |-> user]
    /\ UNCHANGED <<task, orders, now, requests, imports>>

NextBasket ==
    \/ \E user \in Buyers : \E data \in BasketRequestsOf(user) : BasketAdd(user, data)
    \/ \E user \in Owners : \E state \in PartnerStates : PartnerStatePost(user, state)

SpecBasket == Init /\ [][NextBasket]_vars

(***************************************************************************)
(* SpecPrice: buyers fill baskets while a partner changes prices           *)
(***************************************************************************)
\* is_valid of the PATCH body: the model fields quantity, price and price_rrc it holds
\* are non-negative integers
ValidPatch(data) ==
    \A k \in DOMAIN data \cap {"quantity", "price", "price_rrc"} : data[k] >= 0

\* PartnerProductView (PATCH) on a listing of the caller's shop, served by
\* PartnerProductInfoUpdateSerializer.update
PartnerPatch(user, id, data) ==
    /\ HasShop(catalog, user)
    /\ \E instance \in product_infos(catalog, ShopOf(catalog, user).id) :
          /\ instance.id = id
          /\ IF ValidPatch(data)
             THEN /\ catalog' = update(catalog, instance.id, data)
                  /\ last' = [op |-> "partner_patch", result |-> "200", user |-> user]
             ELSE /\ catalog' = catalog
                  /\ last' = [op |-> "partner_patch", result |-> "400", user |-> user]
    /\ UNCHANGED <<task, orders, now, requests, imports>>

\* body of the PATCH: a new price and a new recommended price
PatchBodies == {[price |-> 90, price_rrc |-> 140]}

\* the payload of shop A again, with another price for its first good
RepricedPayload ==
    [shop |-> "A", categories |-> <<Toys>>,
     goods |-> << Good(10, 1, "Ball", <<>>, 120, 150, 2),
                  Good(11, 1, "Bat", <<>>, 200, 250, 1) >>]

NextPrice ==
    \/ \E user \in Buyers : \E data \in BasketRequestsOf(user) : BasketAdd(user, data)
    \/ \E data \in PatchBodies : PartnerPatch(1, 1, data)
    \/ Import(1, RepricedPayload)

SpecPrice == Init /\ [][NextPrice]_vars

(***************************************************************************)
(* SpecPrune: buyers fill and prune their baskets                          *)
(***************************************************************************)
\* the tokens a product_info parameter is made of, between its delimiters, with the
\* number int() reads from those that str.isdigit() accepts
TokenInt == ("0" :> 0) @@ ("1" :> 1) @@ ("2" :> 2) @@ ("3" :> 3) @@ ("99" :> 99)

\* item.isdigit()
isdigit(item) == item \in DOMAIN TokenInt

RECURSIVE lstrip(_)
\* the leading delimiters of the value go: the empty tokens at its head
lstrip(tokens) ==
    IF tokens # <<>> /\ Head(tokens) = "" THEN lstrip(Tail(tokens)) ELSE tokens

RECURSIVE rstrip(_)
rstrip(tokens) ==
    IF tokens # <<>> /\ tokens[Len(tokens)] = ""
    THEN rstrip(SubSeq(tokens, 1, Len(tokens) - 1)) ELSE tokens

\* ids_to_del_value.strip(BASKET_DEL_PARAM_DELIMITER), the value given as the
\* sequence of its tokens; <<>> stands for the empty string
strip(tokens) == rstrip(lstrip(tokens))

RECURSIVE ParseIds(_, _)
\* the loop over split(','): empty tokens are skipped, a token that is not a positive
\* integer ends the request with that token as the error
ParseIds(ids_to_del, tokens) ==
    IF tokens = <<>> THEN [ids |-> ids_to_del, bad |-> <<>>]
    ELSE LET item == Head(tokens)
         IN IF item = "" THEN ParseIds(ids_to_del, Tail(tokens))
            ELSE IF isdigit(item) /\ TokenInt[item] > 0
            THEN ParseIds(ids_to_del \cup {TokenInt[item]}, Tail(tokens))
            ELSE [ids |-> ids_to_del, bad |-> <<item>>]

\* seller_order.ordered_items.remove(ordered_object) for each of the objects: the row
\* leaves the relation, its foreign key is emptied
Detach(rows, objects) ==
    {IF it \in objects THEN [it EXCEPT !.order = None] ELSE it : it \in rows}

\* mutant: the seller orders of the same shops go too, whoever ordered them
DeleteSellerOrders_of_shops(od, ids) ==
    LET shops == {so.shop : so \in {x \in od.SellerOrder : x.id \in ids}}
        gone == {so.id : so \in {x \in od.SellerOrder : x.shop \in shops}}
    IN [od EXCEPT !.SellerOrder = {so \in @ : so.id \notin gone},
                  !.SellerOrderItem = {it \in @ : it.order \notin gone}]

\* queryset.delete() of seller orders, with the line items that belong to them
DeleteSellerOrders(od, ids) ==
    [od EXCEPT !.SellerOrder = {so \in @ : so.id \notin ids},
               !.SellerOrderItem = {it \in @ : it.order \notin ids}]

\* mutant: the row of the basket goes, what belongs to it stays
DeleteBuyerOrder_alone(od, buyer_order) ==
    [od EXCEPT !.BuyerOrder = {bo \in @ : bo.id # buyer_order.id}]

\* basket.delete(), with the seller orders and line items that belong to it
DeleteBuyerOrder(od, buyer_order) ==
    LET gone == {so.id : so \in seller_orders(od, buyer_order.id)}
        od1 == DeleteSellerOrders(od, gone)
    IN [od1 EXCEPT !.BuyerOrder = {bo \in @ : bo.id # buyer_order.id}]

RECURSIVE PruneSellerOrders(_, _, _)
\* the loop over the basket's seller orders: pruned.ids_to_del is what is still to
\* delete, pruned.seller_orders_to_del and pruned.ordered_items_to_del what the loop
\* collects, pruned.orders the store with the removed items detached
PruneSellerOrders(pruned, seller_orders_baskets, read) ==
    IF seller_orders_baskets = <<>> \/ pruned.ids_to_del = {} THEN pruned
    ELSE LET seller_order == Head(seller_orders_baskets)
             items == {it \in read.SellerOrderItem : it.order = seller_order.id}
             ordered_product_ids == {it.product_info : it \in items}
             items_to_del_in_current_order == ordered_product_ids \cap pruned.ids_to_del
             objects_to_del == {it \in items : it.product_info \in items_to_del_in_current_order}
             pruned1 ==
                 IF items_to_del_in_current_order = {} THEN pruned
                 ELSE IF ordered_product_ids = items_to_del_in_current_order
                 THEN [pruned EXCEPT !.seller_orders_to_del = @ \cup {seller_order.id},
                                     !.ids_to_del = @ \ items_to_del_in_current_order]
                 ELSE [pruned EXCEPT !.ordered_items_to_del = @ \cup objects_to_del,
                                     !.orders.SellerOrderItem = Detach(@, objects_to_del),
                                     !.ids_to_del = @ \ items_to_del_in_current_order]
         IN PruneSellerOrders(pruned1, Tail(seller_orders_baskets), read)

\* mutant: the removed line items are never deleted
DeleteItems_none(od, ordered_items_to_del) == od

\* SellerOrderItem.objects.filter(id__in=ordered_items_to_del).delete()
DeleteItems(od, ordered_items_to_del) ==
    [od EXCEPT !.SellerOrderItem =
        @ \ {[it EXCEPT !.order = None] : it \in ordered_items_to_del}]

\* mutant: no requested id counts as unknown
UnknownIds_none(ids_to_del, all_ordered_ids) == {}

\* unknown_ids = ids_to_del - all_ordered_ids
UnknownIds(ids_to_del, all_ordered_ids) == ids_to_del \ all_ordered_ids

\* the value of a request without the product_info parameter
NoParameter == <<"None">>

\* BasketView.delete; value is the product_info parameter as the sequence of its tokens
BasketView_delete(od, user, value) ==
    LET Error(message, detail) ==
            [orders |-> od, status |-> "400", error |-> message, detail |-> detail,
             returned |-> None]
        ids_to_del_value == strip(value)
        parsed == ParseIds({}, ids_to_del_value)
        ids_to_del == parsed.ids
        basket == first(basket_queryset(od, user))
        seller_orders_baskets == seller_orders(od, basket.id)
        all_ordered_ids == {it.product_info : it \in
                               {x \in od.SellerOrderItem :
                                   \E so \in seller_orders_baskets : x.order = so.id}}
        unknown_ids == UnknownIds(ids_to_del, all_ordered_ids)
        pruned == PruneSellerOrders([ids_to_del |-> ids_to_del,
                                     seller_orders_to_del |-> {},
                                     ordered_items_to_del |-> {},
                                     orders |-> od],
                                    InIdOrder(seller_orders_baskets), od)
    IN IF value = NoParameter THEN Error("parameter is required", {})
       ELSE IF ids_to_del_value = <<>> THEN Error("is not valid value", {","})
       ELSE IF parsed.bad # <<>> THEN Error("is not valid value", {parsed.bad[1]})
       ELSE IF basket.id = None THEN Error("Your basket does not exists", {})
       ELSE IF unknown_ids # {} THEN Error("Unknown ids", unknown_ids)
       ELSE IF basket.state = "basket" /\ ids_to_del = all_ordered_ids
       THEN [orders |-> DeleteBuyerOrder(od, basket), status |-> "200",
             error |-> "", detail |-> {}, returned |-> None]
       ELSE [orders |-> DeleteItems(DeleteSellerOrders(pruned.orders,
                                                       pruned.seller_orders_to_del),
                                    pruned.ordered_items_to_del),
             status |-> "200", error |-> "", detail |-> {}, returned |-> basket.id]

\* values of the product_info parameter: single listings, several, all three, values
\* with stray delimiters, none, only delimiters, tokens that are no positive integers,
\* a listing nobody ordered
PruneValues ==
    {NoParameter, <<"">>, <<"", "">>, <<"1">>, <<"2">>, <<"3">>, <<"1", "2">>,
     <<"1", "3">>, <<"1", "2", "3">>, <<"", "3", "", "2", "">>, <<"1", "x">>, <<"0">>,
     <<"-1", "1">>, <<"1", "99">>}

BasketPrune(user, value) ==
    /\ LET response == BasketView_delete(orders, user, value)
       IN /\ orders' = response.orders
          /\ last' = [op |-> "basket_prune", result |-> response.status, user |-> user,
                    error |-> response.error, detail |-> response.detail,
                    ids |-> ParseIds({}, strip(value)).ids,
                    returned |-> response.returned]
    /\ UNCHANGED <<catalog, task, now, requests, imports>>

\* what the buyers put into the baskets they prune: buyer 3 the first listing of shop
\* A, or its second listing with the one of shop B; buyer 4 the first listing of shop A
PruneRequestsOf(user) ==
    IF user = 3 THEN {<<Item(1, MaxQty)>>, <<Item(2, 1), Item(3, 1)>>} ELSE {<<Item(1, 1)>>}

NextPrune ==
    \/ \E user \in Buyers : \E data \in PruneRequestsOf(user) : BasketAdd(user, data)
    \/ \E user \in Buyers : \E value \in PruneValues : BasketPrune(user, value)

SpecPrune == Init /\ [][NextPrune]_vars

(***************************************************************************)
(* SpecGuard: import requests of the owners and the tasks they queue       *)
(***************************************************************************)
MaxTasks == 3

\* AsyncResult(task_id).status: PENDING until the worker has run the task
TaskStatus(im, task_id) == (CHOOSE t \in im.tasks : t.id = task_id).status

\* NotIsImporting.has_permission
NotIsImporting(im, user) ==
    LET task_id == im.redis[user]
    IN IF task_id = None THEN TRUE
       ELSE TaskStatus(im, task_id) # "PENDING"

\* the file of each owner's import requests
UploadOf(user) ==
    [shop |-> IF user = 1 THEN "A" ELSE "B", categories |-> <<Toys>>,
     goods |-> << Good(10, 1, "Ball", <<>>, 100, 150, 2) >>]

\* ImportView.post up to its permission check: refused with 403 or let in
PostCheck(user, r) ==
    /\ imports.posts[user][r].pc = "idle"
    /\ imports.seq < MaxTasks
    /\ IF NotIsImporting(imports, user)
       THEN /\ imports' = [imports EXCEPT !.posts[user][r] = [pc |-> "permitted"]]
            /\ UNCHANGED last
       ELSE /\ last' = [op |-> "import_post", result |-> "403", user |-> user]
            /\ UNCHANGED imports
    /\ UNCHANGED <<catalog, task, orders, now, requests>>

\* lines 271-278: the file is loaded (406 when it cannot be) and
\* import_products.delay queues the task
PostDelay(user, r, loadable) ==
    /\ imports.posts[user][r].pc = "permitted"
    /\ IF loadable
       THEN /\ imports' = [imports EXCEPT
                              !.tasks = @ \cup {[id |-> imports.seq + 1, user_id |-> user,
                                                 json_data |-> UploadOf(user),
                                                 status |-> "PENDING"]},
                              !.seq = @ + 1,
                              !.posts[user][r] = [pc |-> "delayed", task_id |-> imports.seq + 1]]
            /\ UNCHANGED last
       ELSE /\ imports' = [imports EXCEPT !.posts[user][r] = [pc |-> "idle"]]
            /\ last' = [op |-> "import_post", result |-> "406", user |-> user]
    /\ UNCHANGED <<catalog, task, orders, now, requests>>

\* lines 280-284: set_task_id and the response
PostSet(user, r) ==
    /\ imports.posts[user][r].pc = "delayed"
    /\ imports' = [imports EXCEPT !.redis[user] = imports.posts[user][r].task_id,
                                  !.posts[user][r] = [pc |-> "idle"]]
    /\ last' = [op |-> "import_post", result |-> "201", user |-> user]
    /\ UNCHANGED <<catalog, task, orders, now, requests>>

\* the worker runs a queued task to its end
Worker(task_id) ==
    /\ \E t \in imports.tasks :
          /\ t.id = task_id /\ t.status = "PENDING"
          /\ LET run == import_products(catalog, t.user_id, t.json_data)
             IN /\ catalog' = run.db
                /\ imports' = [imports EXCEPT !.tasks =
                                  (@ \ {t}) \cup {[t EXCEPT !.status =
                                      IF run.result = "FAILURE" THEN "FAILURE" ELSE "SUCCESS"]}]
                /\ last' = [op |-> "task", result |-> run.result, branch |-> run.branch,
                          repeat |-> FALSE]
    /\ UNCHANGED <<task, orders, now, requests>>

NextGuard ==
    \/ \E user \in Owners : \E r \in Slots : PostCheck(user, r)
    \/ \E user \in Owners : \E r \in Slots : \E loadable \in BOOLEAN :
          PostDelay(user, r, loadable)
    \/ \E user \in Owners : \E r \in Slots : PostSet(user, r)
    \/ \E task_id \in 1..MaxTasks : Worker(task_id)

SpecGuard == InitImport /\ [][NextGuard]_vars

(***************************************************************************)
(* SpecStock: partners restock, patch and delete listings while buyers     *)
(* fill, prune and check out baskets                                       *)
(***************************************************************************)
\* bodies of the PATCH: a stock below zero, one piece
StockBodies == {[quantity |-> 0 - 1], [quantity |-> 1]}

\* the payload of shop A again, and one with a stock below zero
RestockPayloads ==
    {[shop |-> "A", categories |-> <<Toys>>,
      goods |-> << Good(10, 1, "Ball", <<>>, 100, 150, q),
                   Good(11, 1, "Bat", <<>>, 200, 250, 1) >>] : q \in {0 - 1, 2}}

\* what buyer 3 prunes: the first listing of shop A, or its second listing with the
\* one of shop B
StockPruneValues == {<<"1">>, <<"2", "3">>}

\* what buyer 3 asks for: the first listing of shop A, or its second listing with the
\* one of shop B
StockRequests == {<<Item(1, q)>> : q \in 1..MaxQty} \cup {<<Item(2, 1), Item(3, 1)>>}

NextStock ==
    \/ \E data \in StockRequests : BasketAdd(3, data)
    \/ Checkout(3, 1)
    \/ \E value \in StockPruneValues : BasketPrune(3, value)
    \/ \E data \in StockBodies : PartnerPatch(1, 1, data)
    \/ PartnerDelete(2)
    \/ \E json_data \in RestockPayloads : Import(1, json_data)

SpecStock == Init /\ [][NextStock]_vars

(***************************************************************************)
(* SpecPartner: confirmed seller orders, cancelled by the buyer and        *)
(* updated by the partner                                                  *)
(***************************************************************************)
\* SellerOrderState.choices, the basket first
SellerOrderStates == <<"basket", "new", "canceled", "delivered">>

\* SellerOrderState.get_cancelable_by_user_states()
CancelableByUser == {"basket", "new"}

\* the states a partner may send: SellerOrderState.choices[1:]
PartnerChoices == {SellerOrderStates[i] : i \in 2..Len(SellerOrderStates)}

\* how often rollback_product_quantity was called on the seller order
Calls(od, id) ==
    IF \E c \in od.rolled_back : c.order = id
    THEN (CHOOSE c \in od.rolled_back : c.order = id).calls ELSE 0

\* seller_order.rollback_product_quantity(buyer_order): every line item gives its
\* quantity back to its listing
rollback_product_quantity(db, od, seller_order) ==
    [db |-> [db EXCEPT !.ProductInfo =
                {LET given == {it \in ordered_items(od, seller_order.id) :
                                  it.product_info = pi.id}
                 IN IF given = {} THEN pi
                    ELSE [pi EXCEPT !.quantity = @ + (CHOOSE it \in given : TRUE).quantity]
                 : pi \in @}],
     orders |-> [od EXCEPT !.rolled_back =
                    {c \in @ : c.order # seller_order.id}
                    \cup {[order |-> seller_order.id,
                            calls |-> 1 + Calls(od, seller_order.id)]}]]

\* mutant: the buyer may ask for any seller order of theirs, cancelled ones too
BuyerQueryset_all(od, user) ==
    {so \in od.SellerOrder : ById(od.BuyerOrder, so.buyer_order).user = user}

\* BuyerSellerOrderView.get_queryset
BuyerQueryset(od, user) ==
    {so \in od.SellerOrder :
        /\ ById(od.BuyerOrder, so.buyer_order).user = user
        /\ so.state \in CancelableByUser}

\* BuyerSellerOrderView (DELETE): destroy with perform_destroy
BuyerSellerOrderView_destroy(db, od, user, id) ==
    LET found == {so \in BuyerQueryset(od, user) : so.id = id}
        seller_order_instance == CHOOSE so \in found : TRUE
        buyer_order == ById(od.BuyerOrder, seller_order_instance.buyer_order)
        deleted == DeleteSellerOrders(od, {id})
        rolled == rollback_product_quantity(db, od, seller_order_instance)
    IN IF found = {}
       THEN [db |-> db, orders |-> od, status |-> "404", mails |-> <<>>]
       ELSE IF seller_order_instance.state = "basket"
       THEN [db |-> db,
             orders |-> IF seller_orders(deleted, buyer_order.id) = {}
                        THEN DeleteBuyerOrder(deleted, buyer_order) ELSE deleted,
             status |-> "204", mails |-> <<>>]
       ELSE [db |-> rolled.db,
             orders |-> [rolled.orders EXCEPT !.SellerOrder =
                            Save(@, [seller_order_instance EXCEPT !.state = "canceled"])],
             status |-> "204",
             mails |-> <<[to |-> ById(db.Shop, seller_order_instance.shop).email,
                          kind |-> "canceled", order |-> id]>>]

BuyerCancel(user, id) ==
    /\ LET response == BuyerSellerOrderView_destroy(catalog, orders, user, id)
       IN /\ catalog' = response.db
          /\ orders' = response.orders
          /\ last' = [op |-> "buyer_cancel", result |-> response.status, user |-> user,
                    order |-> id, mails |-> response.mails]
    /\ UNCHANGED <<task, now, requests, imports>>

\* PartnerOrderView.get_queryset
PartnerQueryset(db, od, user) ==
    {so \in od.SellerOrder : so.shop = ShopOf(db, user).id /\ so.state # "basket"}

\* mutant: a state is accepted whatever state the order is in
validate_state_any(instance, data) == TRUE

\* PartnerOrderSerializer.validate_state, for a body that holds a state
validate_state(instance, data) ==
    "state" \in DOMAIN data => instance.state \notin {"canceled", "delivered"}

\* the ChoiceField of state
ValidStateChoice(data) == "state" \in DOMAIN data => data.state \in PartnerChoices

\* PartnerOrderSerializer.validate_shipping_price, for a body that holds one
validate_shipping_price(instance, data) ==
    "shipping_price" \in DOMAIN data => instance.state \in CancelableByUser

\* PartnerOrderView (PATCH): partial_update with PartnerOrderSerializer.update
PartnerOrderView_patch(db, od, user, id, data) ==
    LET found == {so \in PartnerQueryset(db, od, user) : so.id = id}
        instance == CHOOSE so \in found : TRUE
        buyer_order == ById(od.BuyerOrder, instance.buyer_order)
        rolled == IF "state" \in DOMAIN data /\ data.state = "canceled"
                  THEN rollback_product_quantity(db, od, instance)
                  ELSE [db |-> db, orders |-> od]
        Attr(k) == IF k \in DOMAIN data THEN data[k] ELSE instance[k]
        saved == [instance EXCEPT !.state = Attr("state"),
                                  !.shipping_price = Attr("shipping_price")]
    IN IF found = {}
       THEN [db |-> db, orders |-> od, status |-> "404", mails |-> <<>>]
       ELSE IF ~(/\ ValidStateChoice(data)
                 /\ validate_state(instance, data)
                 /\ validate_shipping_price(instance, data))
       THEN [db |-> db, orders |-> od, status |-> "400", mails |-> <<>>]
       ELSE [db |-> rolled.db,
             orders |-> [rolled.orders EXCEPT !.SellerOrder = Save(@, saved)],
             status |-> "200",
             mails |-> IF "state" \in DOMAIN data
                       THEN <<[to |-> UserEmail(buyer_order.user), kind |-> "state",
                               order |-> buyer_order.id]>>
                       ELSE <<>>]

\* bodies of the partner's PATCH: each state, a cancellation with a shipping price
PartnerBodies ==
    {[state |-> st] : st \in {"basket", "new", "canceled", "delivered"}}
    \cup {[state |-> "canceled", shipping_price |-> 500]}

PartnerOrderPatch(user, id, data) ==
    /\ HasShop(catalog, user)
    /\ LET response == PartnerOrderView_patch(catalog, orders, user, id, data)
       IN /\ catalog' = response.db
          /\ orders' = response.orders
          /\ last' = [op |-> "partner_order", result |-> response.status, user |-> user,
                    order |-> id, data |-> data, mails |-> response.mails]
    /\ UNCHANGED <<task, now, requests, imports>>

\* buyer 3 has ordered a listing of each shop and the order was accepted
InitPartner ==
    /\ \E added \in {BasketView_post(SeedCatalog, EmptyOrders, 3, <<Item(2, 1), Item(3, 1)>>)} :
       \E created \in {OrderViewSet_create(SeedCatalog, added.orders, 3, 1, 1)} :
          /\ catalog = created.db
          /\ orders = created.orders
    /\ last = NoRequest
    /\ task = NoTask
    /\ now = 2
    /\ requests = NoRequests
    /\ imports = NoImports

\* what buyer 3 asks for next: the first listing of shop A
PartnerRequests == {<<Item(1, 1)>>}

NextPartner ==
    \/ \E data \in PartnerRequests : BasketAdd(3, data)
    \/ Checkout(3, 1)
    \/ \E id \in 1..MaxSellerOrders : BuyerCancel(3, id)
    \/ \E user \in Owners : \E id \in 1..MaxSellerOrders : \E data \in PartnerBodies :
          PartnerOrderPatch(user, id, data)

SpecPartner == InitPartner /\ [][NextPartner]_vars

(***************************************************************************)
(* SpecRace: each buyer sends one checkout; the two requests are served by *)
(* two workers, each statement committed on its own (no transaction and    *)
(* no row lock is taken anywhere in OrderViewSet.create)                   *)
(***************************************************************************)
Finished(status, read) ==
    [pc |-> "done", status |-> status, read |-> read]

\* lines 489-529 and 533: the queries, the validation of the request, the check loop
\* and the date of the confirmation
CheckoutRead(user, contact_id) ==
    /\ requests[user].pc = "idle"
    /\ LET read == Prefetch(catalog, orders, user)
           checked == CheckItems(NothingChecked, InItemOrder(read.ordered_items), read)
           status == IF read.order.id = None THEN "200"
                     ELSE IF ~ValidContact(orders, user, contact_id) THEN "400"
                     ELSE IF ~checked.acceptable_order THEN "206"
                     ELSE "confirm"
       IN IF status = "confirm"
          THEN /\ requests' = [requests EXCEPT ![user] =
                                  [pc |-> "confirm",
                                   read |-> read,
                                   quantity_to_update |-> checked.quantity_to_update,
                                   users_contact |-> contact_id,
                                   current_date |-> now,
                                   all_orders |-> InIdOrder(read.all_orders)]]
               /\ now' = now + 1
               /\ UNCHANGED last
          ELSE /\ requests' = [requests EXCEPT ![user] = Finished(status, read)]
               /\ last' = [op |-> "checkout", result |-> status, user |-> user,
                         contact |-> contact_id, annotated |-> checked.annotated]
               /\ UNCHANGED now
    /\ UNCHANGED <<catalog, orders, task, imports>>

\* lines 534-551: one round of the confirmation loop
CheckoutConfirm(user) ==
    /\ requests[user].pc = "confirm"
    /\ requests[user].all_orders # <<>>
    /\ LET r == requests[user]
           done == ConfirmSellerOrder(catalog, orders, Head(r.all_orders), r.read,
                                      r.quantity_to_update, r.users_contact, r.current_date)
       IN /\ catalog' = done.db
          /\ orders' = done.orders
          /\ requests' = [requests EXCEPT ![user].all_orders = Tail(@)]
    /\ UNCHANGED <<last, task, now, imports>>

\* lines 553-582: the buyer order is saved and the response sent
CheckoutRespond(user) ==
    /\ requests[user].pc = "confirm"
    /\ requests[user].all_orders = <<>>
    /\ LET r == requests[user]
       IN /\ orders' = AcceptOrder(orders, r.read.order, r.current_date)
          /\ requests' = [requests EXCEPT ![user] = Finished("201", r.read)]
          /\ last' = [op |-> "checkout", result |-> "201", user |-> user,
                    contact |-> r.users_contact, annotated |-> {}]
    /\ UNCHANGED <<catalog, task, now, imports>>

NextRace ==
    \/ \E user \in Buyers : \E data \in BasketRequestsOf(user) : BasketAdd(user, data)
    \/ \E user \in Buyers : \E contact_id \in ContactIds : CheckoutRead(user, contact_id)
    \/ \E user \in Buyers : CheckoutConfirm(user)
    \/ \E user \in Buyers : CheckoutRespond(user)

SpecRace == Init /\ [][NextRace]_vars

(***************************************************************************)
(* Claims about the catalog import                                         *)
(***************************************************************************)
ValidationErrors ==
    {"category parse or matching error", "product parse error", "invalid product_info data"}

\* the payload's good ids are pairwise distinct
DistinctIds(json_data) ==
    \A i, j \in 1..Len(GoodsOf(json_data)) :
        GoodsOf(json_data)[i].id = GoodsOf(json_data)[j].id => i = j

\* the (name, value) pairs of a listing's ProductParameter rows
ParameterSet(db, product_info_id) ==
    {<<ById(db.Parameter, pp.parameter).name, ById(db.ValueOfParameter, pp.value).value>> :
        pp \in {x \in db.ProductParameter : x.product_info = product_info_id}}

\* C4 (as claimed): an import run whose commit step fails partway leaves the catalog
\* as it was before the run: nothing written or zeroed earlier in the run remains.
C4_CommitAllOrNothing ==
    [][(last'.op = "import" /\ last'.result = "FAILURE") => catalog' = catalog]_vars

\* C5 (as claimed): an import run that returns an error from category matching,
\* product parsing or listing validation leaves the store exactly as it was,
\* also when it is the owner's first import.
C5_ValidationErrorLeavesStore ==
    [][(last'.op = "import" /\ last'.result \in ValidationErrors) => catalog' = catalog]_vars

\* C6: after a successful run of a payload with pairwise distinct good ids, the
\* owner's shop has exactly one listing per good of the payload, with the payload's
\* quantity, price, price_rrc and parameter set, on either branch.
C6_ImportedListingsMatch ==
    [][(last'.op = "task" /\ last'.result = "ok" /\ DistinctIds(task.json_data)) =>
        \A i \in 1..Len(task.json_data.goods) :
            LET good == task.json_data.goods[i]
                rows == {pi \in product_infos(catalog', ShopOf(catalog', task.user_id).id) :
                            pi.external_id = good.id}
            IN /\ Cardinality(rows) = 1
               /\ \A pi \in rows :
                     /\ pi.quantity = good.quantity
                     /\ pi.price = good.price
                     /\ pi.price_rrc = good.price_rrc
                     /\ ParameterSet(catalog', pi.id) =
                            {good.parameters[k] : k \in 1..Len(good.parameters)}]_vars

\* a successful re-import of two distinct goods, one of them updated in place
C6_Witness ==
    /\ last.op = "task" /\ last.result = "ok" /\ last.branch = "reimport"
    /\ DistinctIds(task.json_data) /\ Len(task.json_data.goods) = 2
    /\ catalog.pp_seq > 1

\* C7: listings are never row-deleted: a re-import leaves every listing of the shop
\* whose external_id the run does not carry in place with quantity 0, a partner's
\* delete changes nothing but one listing's quantity, which it sets to 0, and no
\* step removes a listing row.
C7_ListingsNeverDeleted ==
    [][/\ {pi.id : pi \in catalog.ProductInfo} \subseteq {pi.id : pi \in catalog'.ProductInfo}
       /\ (last'.op = "task" /\ last'.branch = "reimport") =>
             \A pi \in product_infos(catalog, ShopOf(catalog, task.user_id).id) :
                 pi.external_id \notin {g.id : g \in {task.json_data.goods[i] :
                                                        i \in 1..Len(task.json_data.goods)}}
                 => [pi EXCEPT !.quantity = 0] \in catalog'.ProductInfo
       /\ last'.op = "partner_delete" =>
             \E pi \in catalog.ProductInfo :
                 catalog' = [catalog EXCEPT !.ProductInfo =
                                (@ \ {pi}) \cup {[pi EXCEPT !.quantity = 0]}]]_vars

\* a re-import that left a listing it does not carry in the shop, at quantity 0
C7_Witness ==
    /\ last.op = "task" /\ last.branch = "reimport" /\ last.result = "ok"
    /\ \E pi \in product_infos(catalog, ShopOf(catalog, task.user_id).id) :
          /\ pi.quantity = 0
          /\ \A i \in 1..Len(task.json_data.goods) : task.json_data.goods[i].id # pi.external_id

\* C8 (as claimed): the second of two runs in a row of the same payload for the
\* same owner changes no row.
C8_SecondRunChangesNothing ==
    [][(last'.op = "task" /\ last'.repeat) => catalog' = catalog]_vars

\* C8 (amended): the second of two runs in a row of the same payload changes no
\* row when the payload's good ids are pairwise distinct.
C8_SecondRunChangesNothingDistinct ==
    [][(last'.op = "task" /\ last'.repeat /\ DistinctIds(task.json_data))
          => catalog' = catalog]_vars

\* a payload of two distinct goods with parameters run twice in a row, successfully
C8_Witness ==
    /\ last.op = "task" /\ last.repeat /\ last.result = "ok"
    /\ DistinctIds(task.json_data) /\ Len(task.json_data.goods) = 2
    /\ catalog.ProductParameter # {}

NoTwo(rows, Key(_)) == \A r1, r2 \in rows : Key(r1) = Key(r2) => r1 = r2

\* C9: there is at most one Category, Product and Parameter per name and one
\* ValueOfParameter per value, so listings and category mappings of different shops
\* that carry the same name reference the same global row.
C9_GlobalRowsUnique ==
    /\ NoTwo(catalog.Category, LAMBDA r : r.name)
    /\ NoTwo(catalog.Product, LAMBDA r : r.name)
    /\ NoTwo(catalog.Parameter, LAMBDA r : r.name)
    /\ NoTwo(catalog.ValueOfParameter, LAMBDA r : r.value)
    /\ \A p1, p2 \in catalog.ProductInfo :
          ById(catalog.Product, p1.product).name = ById(catalog.Product, p2.product).name
              => p1.product = p2.product
    /\ \A c1, c2 \in catalog.ShopCategory :
          ById(catalog.Category, c1.category).name = ById(catalog.Category, c2.category).name
              => c1.category = c2.category

\* two shops whose listings reference one Product row, whose category mappings
\* reference one Category row and whose parameters reference one Parameter row
C9_Witness ==
    \E p1, p2 \in catalog.ProductInfo :
        /\ p1.shop # p2.shop
        /\ p1.product = p2.product
        /\ ById(catalog.ShopCategory, p1.category).category
               = ById(catalog.ShopCategory, p2.category).category
        /\ \E a, b \in catalog.ProductParameter :
              a.product_info = p1.id /\ b.product_info = p2.id /\ a.parameter = b.parameter

\* C10: no shop has two listings of one external_id, nor two ShopCategory rows of
\* one external_id.
C10_ExternalIdsUnique ==
    /\ \A p1, p2 \in catalog.ProductInfo :
          (p1.shop = p2.shop /\ p1.external_id = p2.external_id) => p1 = p2
    /\ \A c1, c2 \in catalog.ShopCategory :
          (c1.shop = c2.shop /\ c1.external_id = c2.external_id) => c1 = c2

\* a payload that repeats a good id has gone through the commit step
C10_Witness ==
    /\ last.op = "task" /\ last.branch # ""
    /\ ~ DistinctIds(task.json_data)
    /\ product_infos(catalog, ShopOf(catalog, task.user_id).id) # {}

\* the rows of the listing's parameters
ParameterRows(db, product_info_id) ==
    {pp \in db.ProductParameter : pp.product_info = product_info_id}

\* C11: a successful re-import of a payload with pairwise distinct good ids upserts
\* every listing it finds in place: the fields to update are exactly those of
\* quantity, price, price_rrc that differ from the stored value, plus the parameters
\* exactly when the stored and the new list differ once both are sorted by parameter
\* name; the listing takes the payload's quantity, price and price_rrc and keeps its
\* id, product, category, external_id and shop; its parameter rows are untouched when
\* the sorted lists agree and replaced by fresh rows in the payload's order otherwise
C11_UpsertWritesOnlyChanges ==
    [][(/\ last'.op = "task" /\ last'.branch = "reimport" /\ last'.result = "ok"
        /\ DistinctIds(task.json_data))
       => \A i \in 1..Len(task.json_data.goods) :
             \A instance \in {pi \in product_infos(catalog, ShopOf(catalog, task.user_id).id) :
                                  pi.external_id = task.json_data.goods[i].id} :
                LET validated_data == ProductData(CategoriesDict(task.json_data.categories),
                                                  task.json_data.goods[i])
                    same_parameters ==
                        SortByParameter(ParametersData(catalog, instance.id))
                            = SortByParameter(validated_data.product_parameters)
                    fields_to_update == FieldsToUpdate(catalog, instance, validated_data)
                IN /\ DOMAIN fields_to_update \cap {"quantity", "price", "price_rrc"}
                        = {key \in {"quantity", "price", "price_rrc"} :
                              instance[key] # validated_data[key]}
                   /\ ("product_parameters" \in DOMAIN fields_to_update) <=> ~same_parameters
                   /\ ById(catalog'.ProductInfo, instance.id)
                        = [instance EXCEPT !.quantity = validated_data.quantity,
                                           !.price = validated_data.price,
                                           !.price_rrc = validated_data.price_rrc]
                   /\ IF same_parameters
                      THEN ParameterRows(catalog', instance.id)
                               = ParameterRows(catalog, instance.id)
                      ELSE /\ \A pp \in ParameterRows(catalog', instance.id) :
                                 pp.id > catalog.pp_seq
                           /\ ParametersData(catalog', instance.id)
                                 = validated_data.product_parameters]_vars

\* a re-import has updated a listing whose stored category is not the payload's and
\* whose parameters it replaced
C11_Witness ==
    /\ last.op = "task" /\ last.branch = "reimport" /\ last.result = "ok"
    /\ DistinctIds(task.json_data)
    /\ \E i \in 1..Len(task.json_data.goods) :
          \E pi \in product_infos(catalog, ShopOf(catalog, task.user_id).id) :
             /\ pi.external_id = task.json_data.goods[i].id
             /\ ById(catalog.ShopCategory, pi.category).external_id
                   # task.json_data.goods[i].category
             /\ pi.quantity = task.json_data.goods[i].quantity
             /\ ParameterRows(catalog, pi.id) # {}
             /\ \A pp \in ParameterRows(catalog, pi.id) : pp.id > 1

\* another owner's shop has the name
NameOfAnother(db, user_id, name) == \E s \in db.Shop : s.owner # user_id /\ s.name = name

\* an import of an owner who has a shop uses that shop and leaves it as it is
ImportUsesOwnShop(user_id) ==
    HasShop(catalog, user_id)
    => /\ last'.result # "shop_name is already occupied"
       /\ ShopOf(catalog', user_id) = ShopOf(catalog, user_id)
       /\ \A pi \in catalog'.ProductInfo \ catalog.ProductInfo :
             pi.shop = ShopOf(catalog, user_id).id

OccupancyError == last'.result = "shop_name is already occupied" /\ catalog' = catalog

OneShopPerOwner(db) == \A s1, s2 \in db.Shop : s1.owner = s2.owner => s1 = s2

\* C12 (as claimed): every owner has at most one Shop; an import by an owner who has
\* a shop uses that shop and leaves its name unchanged; an import whose shop name is
\* used by another owner's shop returns the occupancy error and changes nothing
C12_OccupiedNameAlwaysRejected ==
    [][/\ OneShopPerOwner(catalog')
       /\ \A user_id \in Owners : \A json_data \in ShopPayloads :
             Import(user_id, json_data)
             => /\ ImportUsesOwnShop(user_id)
                /\ NameOfAnother(catalog, user_id, json_data.shop) => OccupancyError]_vars

\* C12 (amended): every owner has at most one Shop; an import by an owner who has a
\* shop uses that shop and leaves its name unchanged whatever name the payload
\* carries; an import by an owner who has no shop, whose shop name is used by another
\* owner's shop, returns the occupancy error and changes nothing
C12_OneShopPerOwner ==
    [][/\ OneShopPerOwner(catalog')
       /\ \A user_id \in Owners : \A json_data \in ShopPayloads :
             Import(user_id, json_data)
             => /\ ImportUsesOwnShop(user_id)
                /\ (~HasShop(catalog, user_id)
                    /\ NameOfAnother(catalog, user_id, json_data.shop)) => OccupancyError]_vars

\* an import was refused for its shop name while the other owner's shop, which has
\* the name, holds listings
C12_Witness ==
    /\ last.op = "import"
    /\ last.result = "shop_name is already occupied"
    /\ \E s \in catalog.Shop : product_infos(catalog, s.id) # {}
    /\ Cardinality(catalog.Shop) = 1

\* the keys a payload lacks, at the top level or in a category entry
MissingKeys(json_data) ==
    ({"shop", "categories", "goods"} \ DOMAIN json_data)
    \cup (IF "categories" \in DOMAIN json_data
          THEN UNION {{"id", "name"} \ DOMAIN json_data.categories[i] :
                         i \in 1..Len(json_data.categories)}
          ELSE {})

\* C13: an import of a payload that lacks one of the keys shop, categories, goods, or
\* whose category entries lack id or name, returns the parse error with
\* invalid_field naming a key the payload lacks (the key in quotes, as str() of a
\* KeyError gives it), and changes no row of the catalog or of the order tables
C13_ParseErrorChangesNothing ==
    [][\A user_id \in Owners : \A json_data \in UnparsablePayloads :
          Import(user_id, json_data)
          => /\ last'.result = "parse error"
             /\ import_products(catalog, user_id, json_data).invalid_field
                   \in {KeyErrorStr(key) : key \in MissingKeys(json_data)}
             /\ catalog' = catalog
             /\ orders' = orders]_vars

\* a parse error was returned to an owner whose shop holds listings
C13_Witness ==
    /\ last.op = "import"
    /\ last.result = "parse error"
    /\ catalog.ProductInfo # {}

(***************************************************************************)
(* Claims about checkout                                                   *)
(***************************************************************************)
\* the items of the buyer's basket
BasketItems(od, user) ==
    {it \in od.SellerOrderItem :
        \E so \in seller_orders(od, basket_object(od, user).id) : it.order = so.id}

\* the item asks for more than its listing has in stock
Exceeds(db, it) == it.quantity > ById(db.ProductInfo, it.product_info).quantity

\* C1: a checkout of a basket in which at least one item asks for more than its listing
\* has in stock changes nothing: every listing keeps its quantity, the buyer order and
\* its seller orders stay in state basket without contact and created_at, and no other
\* row of the catalog or of the order tables changes
C1_ShortfallChangesNothing ==
    [][(/\ last'.op = "checkout"
        /\ \E it \in BasketItems(orders, last'.user) : Exceeds(catalog, it))
       => /\ \A pi \in catalog.ProductInfo :
                ById(catalog'.ProductInfo, pi.id).quantity = pi.quantity
          /\ basket_object(orders', last'.user) = basket_object(orders, last'.user)
          /\ basket_object(orders', last'.user).created_at = None
          /\ \A so \in seller_orders(orders', basket_object(orders, last'.user).id) :
                so.state = "basket" /\ so.contact = None /\ so.created_at = None
          /\ catalog' = catalog
          /\ orders' = orders]_vars

\* a rejected checkout of a basket with an item that is short and an item that is not
C1_Witness ==
    /\ last.op = "checkout"
    /\ last.result = "206"
    /\ \E it \in BasketItems(orders, last.user) : Exceeds(catalog, it)
    /\ \E it \in BasketItems(orders, last.user) : ~Exceeds(catalog, it)

\* the quantity the buyer's basket asks of a listing
Requested(od, user, id) ==
    LET its == {it \in BasketItems(od, user) : it.product_info = id}
    IN IF its = {} THEN 0 ELSE (CHOOSE it \in its : TRUE).quantity

\* C3: a checkout of a basket whose items all fit the stock, with a contact of the
\* buyer, answers 201, leaves every ordered listing with (available - requested), puts
\* every seller order of the basket in state new with the chosen contact and
\* created_at = now, puts the buyer order in state accepted with the same created_at,
\* and changes nothing else in the catalog or the order tables
C3_AcceptedCheckoutEffects ==
    [][(/\ last'.op = "checkout"
        /\ basket_object(orders, last'.user).id # None
        /\ ValidContact(orders, last'.user, last'.contact)
        /\ \A it \in BasketItems(orders, last'.user) : ~Exceeds(catalog, it))
       => LET user == last'.user
              basket == basket_object(orders, user)
          IN /\ last'.result = "201"
             /\ catalog' = [catalog EXCEPT !.ProductInfo =
                               {[pi EXCEPT !.quantity = @ - Requested(orders, user, pi.id)] :
                                   pi \in @}]
             /\ orders' = [orders EXCEPT
                              !.SellerOrder =
                                  {IF so.buyer_order = basket.id
                                   THEN [so EXCEPT !.state = "new",
                                                   !.contact = last'.contact,
                                                   !.created_at = now]
                                   ELSE so : so \in @},
                              !.BuyerOrder =
                                  {IF b.id = basket.id
                                   THEN [b EXCEPT !.state = "accepted", !.created_at = now]
                                   ELSE b : b \in @}]]_vars

\* an accepted checkout of a basket with items of two shops
C3_Witness ==
    /\ last.op = "checkout"
    /\ last.result = "201"
    /\ \E b \in orders.BuyerOrder :
          /\ b.user = last.user /\ b.state = "accepted" /\ b.created_at = now - 1
          /\ Cardinality(seller_orders(orders, b.id)) >= 2
          /\ \A so \in seller_orders(orders, b.id) :
                so.state = "new" /\ so.contact = last.contact /\ ordered_items(orders, so.id) # {}

\* what a finished checkout asked of a listing, and what it sold of it
Asked(user, id) ==
    LET its == {it \in requests[user].read.ordered_items : it.product_info = id}
    IN IF its = {} THEN 0 ELSE (CHOOSE it \in its : TRUE).quantity

Sold(user, id) == IF requests[user].status = "201" THEN Asked(user, id) ELSE 0

\* C2: once the checkouts of both buyers are finished, for every listing both baskets
\* held: both were accepted only if the quantities they asked for fit the stock the
\* listing had before them, and the listing is left with that stock minus the
\* quantities of the accepted checkouts
C2_DecrementIsAtomic ==
    (\A user \in Buyers : requests[user].pc = "done")
    => \A pi \in catalog.ProductInfo :
          (\A user \in Buyers : Asked(user, pi.id) > 0)
          => LET before == Max({ById(requests[user].read.product_infos, pi.id).quantity :
                                   user \in Buyers})
             IN /\ (\A user \in Buyers : requests[user].status = "201")
                   => Asked(3, pi.id) + Asked(4, pi.id) <= before
                /\ pi.quantity = before - (Sold(3, pi.id) + Sold(4, pi.id))

(***************************************************************************)
(* Claims about baskets                                                    *)
(***************************************************************************)
\* C14: in every state reached by basket-add and checkout requests, every seller
\* order of a basket names one existing shop, every line item of it references a
\* listing of that shop, and no basket holds two basket-state seller orders of one shop
C14_BasketGroupedByShop ==
    \A b \in orders.BuyerOrder :
        b.state = "basket"
        => /\ \A so \in seller_orders(orders, b.id) :
                 /\ Cardinality({shop \in catalog.Shop : shop.id = so.shop}) = 1
                 /\ \A it \in ordered_items(orders, so.id) :
                       \E pi \in product_infos(catalog, so.shop) : pi.id = it.product_info
           /\ \A so1, so2 \in seller_orders(orders, b.id) :
                 (so1.state = "basket" /\ so2.state = "basket" /\ so1.shop = so2.shop)
                 => so1 = so2

\* a basket filled by several requests: two seller orders, one of them with two items
C14_Witness ==
    \E b \in orders.BuyerOrder :
        /\ b.state = "basket"
        /\ Cardinality(seller_orders(orders, b.id)) = 2
        /\ \E so \in seller_orders(orders, b.id) :
              Cardinality(ordered_items(orders, so.id)) = 2

\* the listing of that id is one of an open shop
Orderable(db, id) ==
    \E pi \in db.ProductInfo : pi.id = id /\ ById(db.Shop, pi.shop).is_open

\* the line items of the buyer's basket for the listing
ItemsFor(od, user, id) == {it \in BasketItems(od, user) : it.product_info = id}

\* C15 (as claimed): a basket-add request with quantities of at least 1 succeeds
\* whatever listings it names: for a listing of a closed shop or an id that does not
\* exist nothing is created, and every other listing it names is in the basket
\* afterwards with the requested quantity
C15_UnknownAndClosedAreDropped ==
    [][\A user \in Buyers : \A data \in BasketRequestsOf(user) :
          (BasketAdd(user, data) /\ \A i \in DOMAIN data : data[i].quantity >= 1)
          => /\ last'.result = "201"
             /\ \A id \in {data[i].product_info : i \in DOMAIN data} :
                   IF Orderable(catalog, id)
                   THEN \E it \in ItemsFor(orders', user, id) :
                           it.quantity = OrderedItemsDict(data)[id]
                   ELSE ItemsFor(orders', user, id) = ItemsFor(orders, user, id)
             /\ \A so \in orders'.SellerOrder \ orders.SellerOrder :
                   ById(catalog.Shop, so.shop).is_open]_vars

\* the listing as the catalog holds it
Listing(db, id) == ById(db.ProductInfo, id)

\* C16: a successful basket-add leaves, for every listing of an open shop it names,
\* exactly one line item in the buyer's basket, in the seller order of the listing's
\* shop, with the requested quantity (not a sum) and the listing's price and
\* recommended price of that moment; every other line item is left as it was, and a
\* price change by a re-import or a partner update changes no line item
C16_UpsertSnapshotsPrice ==
    [][/\ \A user \in Buyers : \A data \in BasketRequestsOf(user) :
            (BasketAdd(user, data) /\ last'.result = "201")
            => /\ \A id \in {data[i].product_info : i \in DOMAIN data} :
                     Orderable(catalog, id)
                     => \E it \in orders'.SellerOrderItem :
                           /\ ItemsFor(orders', user, id) = {it}
                           /\ ById(orders'.SellerOrder, it.order).shop = Listing(catalog, id).shop
                           /\ it.quantity = OrderedItemsDict(data)[id]
                           /\ it.purchase_price = Listing(catalog, id).price
                           /\ it.purchase_price_rrc = Listing(catalog, id).price_rrc
               /\ \A it \in orders.SellerOrderItem :
                     it.product_info \notin {data[i].product_info : i \in DOMAIN data}
                     => it \in orders'.SellerOrderItem
               /\ \A it \in orders'.SellerOrderItem \ orders.SellerOrderItem :
                     it \in ItemsFor(orders', user, it.product_info)
       /\ last'.op \in {"partner_patch", "import"} => orders' = orders]_vars

\* a basket holds a line item whose snapshot differs from the listing's present price,
\* and the last request added a listing anew at the present price
C16_Witness ==
    /\ last.op = "basket_add" /\ last.result = "201"
    /\ \E it \in BasketItems(orders, 4) :
          it.purchase_price # Listing(catalog, it.product_info).price
    /\ \E it \in BasketItems(orders, 3) :
          /\ it.product_info = 1
          /\ it.purchase_price = Listing(catalog, 1).price
          /\ it.purchase_price # 100

\* C17 (as claimed): no buyer has an empty basket: every buyer order in state basket
\* has at least one seller order, and every seller order of it has at least one item
C17_NoEmptyBasket ==
    \A bo \in orders.BuyerOrder :
        bo.state = "basket"
        => /\ seller_orders(orders, bo.id) # {}
           /\ \A so \in seller_orders(orders, bo.id) : ordered_items(orders, so.id) # {}

\* a buyer order is in state basket exactly when all its seller orders are
BasketIffChildrenInBasket ==
    \A bo \in orders.BuyerOrder :
        bo.state = "basket" <=> \A so \in seller_orders(orders, bo.id) : so.state = "basket"

\* orders in state basket have no created_at
BasketHasNoDate ==
    /\ \A bo \in orders.BuyerOrder : bo.state = "basket" => bo.created_at = None
    /\ \A so \in orders.SellerOrder : so.state = "basket" => so.created_at = None

\* created_at is written at the step that takes the buyer order from basket to accepted,
\* with the timestamp its seller orders get on their way from basket to new, and by no
\* other step
DatedOnceAtAcceptance ==
    /\ \A bo \in orders.BuyerOrder : \A after \in orders'.BuyerOrder :
          after.id = bo.id
          => IF bo.state = "basket" /\ after.state # "basket"
             THEN /\ after.state = "accepted"
                  /\ after.created_at # None
                  /\ \A so \in seller_orders(orders', bo.id) :
                        /\ so.state = "new"
                        /\ so.created_at = after.created_at
                        /\ ById(orders.SellerOrder, so.id).state = "basket"
             ELSE after.created_at = bo.created_at
    /\ \A so \in orders.SellerOrder : \A after \in orders'.SellerOrder :
          (after.id = so.id /\ ~(so.state = "basket" /\ after.state = "new"))
          => after.created_at = so.created_at

\* C18 (as claimed): a buyer order is in state basket exactly when all its seller
\* orders are; orders in state basket have no created_at; created_at is set exactly
\* once, when the buyer order goes from basket to accepted, to the timestamp its seller
\* orders get on going from basket to new, and never changes afterwards
C18_StatesAndCreatedAt ==
    /\ [](BasketIffChildrenInBasket /\ BasketHasNoDate)
    /\ [][DatedOnceAtAcceptance]_vars

\* the listings of the buyer's basket items that ask for more than is in stock
Short(db, od, user) == {it.product_info : it \in {x \in BasketItems(od, user) : Exceeds(db, x)}}

\* C19: a checkout that gets past the basket lookup and the contact check is rejected
\* with 206 exactly when some item of the basket asks for more than its listing has in
\* stock, and then the annotated items are exactly those that do; otherwise it is
\* accepted with 201 and no item is annotated
C19_AnnotatedIffShort ==
    [][(last'.op = "checkout" /\ last'.result \in {"201", "206"})
       => /\ last'.annotated = Short(catalog, orders, last'.user)
          /\ last'.result = "206" <=> Short(catalog, orders, last'.user) # {}]_vars

\* a rejected checkout of a basket with two items short of stock and one that is not
C19_Witness ==
    /\ last.op = "checkout" /\ last.result = "206"
    /\ Cardinality(last.annotated) >= 2
    /\ \E it \in BasketItems(orders, last.user) : it.product_info \notin last.annotated
    /\ last.annotated = Short(catalog, orders, last.user)

\* the messages of the last request that went to the address
MailsTo(mails, address) == {i \in DOMAIN mails : mails[i].to = address}

\* the stock the listings of the items are left with when the items are sold
StockLeft(db, items) ==
    [id \in {it.product_info : it \in items} |->
        Listing(db, id).quantity
        - (CHOOSE it \in items : it.product_info = id).quantity]

\* C20: an accepted checkout queues exactly one message per seller that has a seller
\* order in the basket and exactly one for the buyer, each sent when the order it
\* reports is already in its new state and the stock of its items is already
\* decremented; a checkout that is rejected, finds no basket or fails on the contact
\* queues none
C20_OneMailEach ==
    [][last'.op = "checkout"
       => LET user == last'.user
              mails == last'.mails
              sos == seller_orders(orders, basket_object(orders, user).id)
          IN IF last'.result = "201"
             THEN /\ Len(mails) = Cardinality(sos) + 1
                  /\ \A so \in sos :
                        \E i \in DOMAIN mails :
                           /\ MailsTo(mails, ById(catalog.Shop, so.shop).email) = {i}
                           /\ mails[i].kind = "seller"
                           /\ mails[i].order = so.id
                           /\ mails[i].state = "new"
                           /\ mails[i].stock = StockLeft(catalog, ordered_items(orders, so.id))
                  /\ \E i \in DOMAIN mails :
                        /\ MailsTo(mails, UserEmail(user)) = {i}
                        /\ mails[i].kind = "buyer"
                        /\ mails[i].order = basket_object(orders, user).id
                        /\ mails[i].state = "accepted"
                        /\ mails[i].stock = StockLeft(catalog, BasketItems(orders, user))
                        /\ \A so \in seller_orders(orders', mails[i].order) : so.state = "new"
             ELSE mails = <<>>]_vars

\* an accepted checkout of a basket with seller orders of two shops
C20_Witness ==
    /\ last.op = "checkout" /\ last.result = "201"
    /\ Len(last.mails) = 3
    /\ \E i, j \in DOMAIN last.mails :
          /\ last.mails[i].kind = "seller" /\ last.mails[j].kind = "seller"
          /\ last.mails[i].to # last.mails[j].to

\* C21: a checkout by a buyer none of whose buyer orders is in state basket answers
\* 'no order to confirm' (status 200) and changes nothing: no order row is created or
\* changed, no stock changes and no message is queued
C21_NoBasketChangesNothing ==
    [][(/\ last'.op = "checkout"
        /\ ~\E bo \in orders.BuyerOrder : bo.user = last'.user /\ bo.state = "basket")
       => /\ last'.result = "200"
          /\ orders' = orders
          /\ catalog' = catalog
          /\ last'.mails = <<>>]_vars

\* a buyer whose only order is already accepted has tried to check out again
C21_Witness ==
    /\ last.op = "checkout" /\ last.result = "200"
    /\ \E bo \in orders.BuyerOrder : bo.user = last.user /\ bo.state = "accepted"
    /\ ~\E bo \in orders.BuyerOrder : bo.user = last.user /\ bo.state = "basket"

(***************************************************************************)
(* Claims about basket pruning                                             *)
(***************************************************************************)
\* the value has no token at all between its delimiters
EmptyValue(value) == \A i \in DOMAIN value : value[i] = ""

\* the value has a token that is not a positive integer
Malformed(value) ==
    \E i \in DOMAIN value :
        value[i] # "" /\ ~(value[i] \in DOMAIN TokenInt /\ TokenInt[value[i]] > 0)

\* the listing ids a well-formed value asks to delete
AskedToDelete(value) == {TokenInt[value[i]] : i \in {j \in DOMAIN value : value[j] # ""}}

\* the listing ids ordered in the buyer's basket
OrderedIds(od, user) == {it.product_info : it \in BasketItems(od, user)}

HasBasket(od, user) == \E bo \in od.BuyerOrder : bo.user = user /\ bo.state = "basket"

\* C22: a basket-prune request deletes nothing and answers with an error when its
\* parameter is missing, empty or holds a token that is not a positive integer (a
\* parameter error), when the caller has no basket ('does not exists'), or when some
\* requested id is not ordered in the basket (the error lists exactly those ids, and
\* the requested ids that are in the basket stay)
C22_PruneErrorsDeleteNothing ==
    [][\A user \in {u \in Buyers : last'.op = "basket_prune" /\ last'.user = u} :
       \A value \in {v \in PruneValues : ParseIds({}, strip(v)).ids = last'.ids} :
          BasketPrune(user, value)
          => IF value = NoParameter \/ EmptyValue(value) \/ Malformed(value)
             THEN /\ last'.result = "400" /\ orders' = orders
                  /\ last'.error \in {"parameter is required", "is not valid value"}
             ELSE IF ~HasBasket(orders, user)
             THEN /\ last'.result = "400" /\ orders' = orders
                  /\ last'.error = "Your basket does not exists"
             ELSE (AskedToDelete(value) \ OrderedIds(orders, user) # {})
                  => /\ last'.result = "400" /\ orders' = orders
                     /\ last'.error = "Unknown ids"
                     /\ last'.detail = AskedToDelete(value) \ OrderedIds(orders, user)]_vars

\* a prune that asked for an ordered listing together with one that is not ordered
C22_Witness ==
    /\ last.op = "basket_prune" /\ last.error = "Unknown ids"
    /\ last.detail = {99}
    /\ 1 \in OrderedIds(orders, last.user)

\* the last request was a prune by a buyer with a basket, and ids is its delete set
PruneOf(ids) ==
    /\ last'.op = "basket_prune"
    /\ last'.error \notin {"parameter is required", "is not valid value"}
    /\ last'.ids = ids
    /\ HasBasket(orders, last'.user)

\* C23: a prune whose delete set is the set of all listing ids ordered in the basket
\* deletes the buyer order with all its seller orders and line items and returns an
\* empty result; afterwards the buyer has no basket
C23_FullPruneDeletesBasket ==
    [][(PruneOf(OrderedIds(orders, last'.user)) /\ OrderedIds(orders, last'.user) # {})
       => LET basket == basket_object(orders, last'.user)
              gone == seller_orders(orders, basket.id)
          IN /\ last'.result = "200" /\ last'.returned = None
             /\ orders'.BuyerOrder = orders.BuyerOrder \ {basket}
             /\ orders'.SellerOrder = orders.SellerOrder \ gone
             /\ orders'.SellerOrderItem =
                   {it \in orders.SellerOrderItem : \A so \in gone : it.order # so.id}
             /\ ~HasBasket(orders', last'.user)]_vars

\* a basket with seller orders of two shops has been pruned away while the other
\* buyer's basket stands
C23_Witness ==
    /\ last.op = "basket_prune" /\ last.result = "200"
    /\ last.ids = {1, 2, 3}
    /\ ~HasBasket(orders, last.user)
    /\ \E bo \in orders.BuyerOrder : bo.user # last.user /\ bo.state = "basket"

\* C24: a prune whose delete set is a proper non-empty subset of the listing ids
\* ordered in the basket deletes exactly the line items of the basket whose listing is
\* in the set and exactly the seller orders of the basket all of whose line items were
\* in the set, and keeps the buyer order
C24_PartialPrune ==
    [][\A ids \in SUBSET OrderedIds(orders, last'.user) :
          (PruneOf(ids) /\ ids # {} /\ ids # OrderedIds(orders, last'.user))
          => LET basket == basket_object(orders, last'.user)
                 mine == seller_orders(orders, basket.id)
             IN /\ last'.result = "200" /\ last'.returned = basket.id
                /\ orders'.SellerOrderItem =
                      orders.SellerOrderItem
                      \ {it \in BasketItems(orders, last'.user) : it.product_info \in ids}
                /\ orders'.SellerOrder =
                      orders.SellerOrder
                      \ {so \in mine : \A it \in ordered_items(orders, so.id) :
                                           it.product_info \in ids}
                /\ orders'.BuyerOrder = orders.BuyerOrder]_vars

\* of a basket with two listings of shop A and one of shop B, the listing of shop B has
\* been pruned: the seller order of shop A stands with its items, the one of shop B
\* is gone
C24_Witness ==
    /\ last.op = "basket_prune" /\ last.result = "200" /\ last.ids = {3}
    /\ LET mine == seller_orders(orders, basket_object(orders, last.user).id)
       IN /\ \E so \in mine : so.shop = 1 /\ ordered_items(orders, so.id) # {}
          /\ \A so \in mine : so.shop # 2

\* C25: a prune leaves what it was not asked to delete: the line items whose listing is
\* not in the delete set stay as they are, a seller order with a surviving item stays
\* as it is, the rows of other buyers' orders stay, no row is added, and the catalog
\* (the stock of every listing included) does not change
C25_PruneFrame ==
    [][last'.op = "basket_prune"
       => LET user == last'.user
              mine == seller_orders(orders, basket_object(orders, user).id)
          IN /\ catalog' = catalog
             /\ \A it \in orders.SellerOrderItem :
                   (it \notin BasketItems(orders, user) \/ it.product_info \notin last'.ids)
                   => it \in orders'.SellerOrderItem
             /\ \A so \in orders.SellerOrder :
                   (so \notin mine \/ \E it \in ordered_items(orders', so.id) : TRUE)
                   => so \in orders'.SellerOrder
             /\ \A bo \in orders.BuyerOrder : bo.user # user => bo \in orders'.BuyerOrder
             /\ orders'.SellerOrderItem \subseteq orders.SellerOrderItem
             /\ orders'.SellerOrder \subseteq orders.SellerOrder
             /\ orders'.BuyerOrder \subseteq orders.BuyerOrder]_vars

\* one listing of a seller order has been pruned, another of the same seller order
\* stays, and the other buyer has a basket of the same shop
C25_Witness ==
    /\ last.op = "basket_prune" /\ last.result = "200" /\ last.ids = {1}
    /\ \E it \in BasketItems(orders, last.user) : it.product_info = 2
    /\ \E so \in orders.SellerOrder :
          /\ so.shop = 1
          /\ ById(orders.BuyerOrder, so.buyer_order).user # last.user

(***************************************************************************)
(* Claims about the import guard                                           *)
(***************************************************************************)
\* the owner's tasks that were queued and have not been run to their end
InFlight(user) == {t \in imports.tasks : t.user_id = user /\ t.status = "PENDING"}

\* no import request of the owner is under way
Quiet(user) == \A r \in Slots : imports.posts[user][r].pc = "idle"

\* C26 (as claimed): per owner at most one import is in flight at any time; once no
\* import request of the owner is under way the tracked task id names the import the
\* owner started last; and an import request that meets a tracked task that has not
\* completed is refused
C26_OneImportInFlight ==
    /\ [](\A user \in Owners :
            /\ Cardinality(InFlight(user)) <= 1
            /\ (Quiet(user) /\ \E t \in imports.tasks : t.user_id = user)
               => imports.redis[user]
                  = Max({t.id : t \in {x \in imports.tasks : x.user_id = user}}))
    /\ [][\A user \in Owners : \A r \in Slots :
            (/\ PostCheck(user, r)
             /\ imports.redis[user] # None
             /\ \E t \in InFlight(user) : t.id = imports.redis[user])
            => last'.op = "import_post" /\ last'.result = "403" /\ imports' = imports]_vars

(***************************************************************************)
(* Claims about the partner state                                          *)
(***************************************************************************)
\* the listing belongs to a shop that is closed
OfClosedShop(db, id) ==
    \E pi \in db.ProductInfo : pi.id = id /\ ~ById(db.Shop, pi.shop).is_open

\* C27: posting the partner state 'on' leaves the caller's shop open and 'off' leaves
\* it closed, whatever it was before, and changes no other shop nor anything else of
\* the catalog; while a shop is closed a basket-add creates no seller order for it and
\* creates or changes no line item for its listings
C27_StateOpensAndCloses ==
    [][/\ \A user \in Owners : \A state \in {"on", "off"} :
            PartnerStatePost(user, state)
            => /\ last'.result = "201"
               /\ ShopOf(catalog', user).is_open = (state = "on")
               /\ catalog' = [catalog EXCEPT !.Shop =
                                 (@ \ {ShopOf(catalog, user)})
                                 \cup {[ShopOf(catalog, user) EXCEPT !.is_open = (state = "on")]}]
       /\ last'.op = "basket_add"
          => /\ \A so \in orders'.SellerOrder \ orders.SellerOrder :
                   ById(catalog.Shop, so.shop).is_open
             /\ \A it \in orders'.SellerOrderItem \ orders.SellerOrderItem :
                   ~OfClosedShop(catalog, it.product_info)
             /\ \A it \in orders.SellerOrderItem \ orders'.SellerOrderItem :
                   ~OfClosedShop(catalog, it.product_info)]_vars

\* shop B is closed and buyer 3 has asked for the second listing of shop A together
\* with the listing of shop B: only the former is in the basket
C27_Witness ==
    /\ last.op = "basket_add" /\ last.result = "201" /\ last.user = 3
    /\ ~ById(catalog.Shop, 2).is_open
    /\ ById(catalog.Shop, 1).is_open
    /\ {it.product_info : it \in BasketItems(orders, 3)} = {2}

(***************************************************************************)
(* Claims about the stock                                                  *)
(***************************************************************************)
\* C28: in every reachable state, with requests served one at a time, the stock
\* quantity of every listing is at least zero
C28_StockNeverNegative == \A pi \in catalog.ProductInfo : pi.quantity >= 0

\* an accepted checkout has sold the last piece of a listing
C28_Witness ==
    /\ last.op = "checkout" /\ last.result = "201"
    /\ \E so \in orders.SellerOrder : \E it \in ordered_items(orders, so.id) :
          /\ so.state = "new"
          /\ it.quantity >= 1
          /\ Listing(catalog, it.product_info).quantity = 0

(***************************************************************************)
(* Claims about seller orders after the checkout                           *)
(***************************************************************************)
\* C29: a partner order update that supplies a state never changes the state of a
\* seller order that is canceled or delivered, and no partner order update leaves a
\* seller order in state basket that was not in it
C29_TerminalForPartner ==
    [][last'.op = "partner_order"
       => \A so \in orders.SellerOrder : \A after \in orders'.SellerOrder :
             after.id = so.id
             => /\ so.state \in {"canceled", "delivered"} => after.state = so.state
                /\ after.state = "basket" => so.state = "basket"]_vars

\* the partner has asked for another state of an order that is canceled
C29_Witness ==
    /\ last.op = "partner_order" /\ last.result = "400"
    /\ "state" \in DOMAIN last.data /\ last.data.state = "new"
    /\ \E so \in orders.SellerOrder : so.id = last.order /\ so.state = "canceled"

\* C30: whatever buyer cancellations and partner order updates were made,
\* rollback_product_quantity has been called at most once on each seller order
C30_RolledBackAtMostOnce ==
    \A id \in 1..MaxSellerOrders : Calls(orders, id) <= 1

\* a cancellation of an order that was rolled back before has been refused
C30_Witness ==
    /\ last.op \in {"buyer_cancel", "partner_order"}
    /\ last.result \in {"404", "400"}
    /\ Calls(orders, last.order) = 1
    /\ last.op = "partner_order" => ("state" \in DOMAIN last.data /\ last.data.state = "canceled")

====
